---- MODULE Spec2Model ----
(***************************************************************************)
(* A model of the toytracer rendering core: the intersection pipeline      *)
(* (when_intersect_world, hit, prepare_computations) and the shading       *)
(* recursion (color_of_ray, shade_hit, reflected_color, refracted_color).  *)
(*                                                                         *)
(* Reals (f64) are fixed-point integers in units of 1/One.  A colour has   *)
(* one channel.  The vector geometry of a scene (where a ray meets an      *)
(* object, the angle at the hit, the reflected and refracted rays) is      *)
(* scene data: tables indexed by ray and object.                           *)
(***************************************************************************)
EXTENDS Integers, Sequences, FiniteSets, TLC

VARIABLES
    objects,    \* World.objects: the ordered sequence of object ids
    light,      \* World.light: TRUE for Some(white point light), FALSE for None
    material,   \* object id -> Material
    scene,      \* which geometry table the rays are traced in
    stack,      \* the chain of active color_of_ray calls, innermost last
    result,     \* Option<Color>: what the outermost color_of_ray returned
    ray,        \* intersection pipeline: object id -> the ts intersect_with gave
    xs,         \* intersection pipeline: the intersection list at hand
    h,          \* intersection pipeline: what hit(xs) returned, once computed
    comps,      \* intersection pipeline: the n1/n2 of the prepared hit
    before,     \* intersection pipeline: the ray and hit seen before the objects were reordered
    pc,         \* intersection pipeline: which of xs, h, comps have been computed
    point,      \* is_shadowed: the point asked about and the answer
    canvas,     \* Canvas: width, height and the pixels in row-major order
    call,       \* Canvas: the arguments of the last write_to and the canvas before it
    camera,     \* Camera: hsize, vsize and the sizes derived from them
    picture,    \* Camera::render: the world it is given, as the colour of each ray
    tasks,      \* Camera::render: where the task of each pixel index is
    ppm,        \* Canvas::to_ppm: what the call gave
    UID,        \* lib.rs: the static AtomicUsize
    got,        \* get_uid: thread -> the values it was returned, in order
    shapes,     \* the shapes constructed so far
    outcome,    \* how the last scene operation ended: a value or a panic
    path,       \* pad_filepath: the path, the existing paths, the loop's locals
    reprs,      \* yaml: the material definitions being resolved
    trs,        \* yaml: the named transforms being resolved, and an object's inline steps
    tr,         \* Tr / Transformation: the builder calls made and the matrix they gave
    fmt         \* Display for Color: the colour and the text it was formatted to

coreVars == <<objects, light, material, scene, stack, result, ray, xs, h, comps, before, pc>>

shadowVars == <<point>>

canvasVars == <<canvas, call, camera, picture, tasks, ppm>>

uidVars == <<UID, got, shapes, outcome>>

pathVars == <<path>>

yamlVars == <<reprs>>

restVars == <<trs, tr, fmt>>

outVars == <<shadowVars, canvasVars, uidVars, pathVars, yamlVars, restVars>>

vars == <<coreVars, outVars>>

traceVars == <<light, scene, stack, result>>

pipeVars == <<ray, xs, h, comps, before, pc>>

----------------------------------------------------------------------------
(* Bounds *)

MaxDepth == 3
\* the largest limit a top-level color_of_ray call is given

MaxObjects == 3
\* objects in the world of the intersection pipeline

MaxT == 2
\* hand-built intersections have t in -MaxT..MaxT

MaxWorldT == 1
\* a world object's intersect_with gives t values in -MaxWorldT..MaxWorldT

MaxLen == 3
\* longest hand-built intersection list given to hit

MaxSpheres == 3
\* nested or overlapping glass spheres a ray passes through

MaxDistance == 2
\* the distance from a point to the light is in 1..MaxDistance

MaxSize == 2
\* a rendered canvas has hsize and vsize in 0..MaxSize

MaxWidth == 6
\* a canvas written as PPM has a width in 0..MaxWidth

MaxHeight == 2
\* a canvas written as PPM has a height in 0..MaxHeight

MaxThreads == 2
\* threads that construct shapes and take ids

MaxCalls == 2
\* calls of get_uid per thread

MaxShapes == 3
\* shapes constructed or cloned in one run
MaxPadding == 3
\* pad_filepath: the paths "<stem> (n).<ext>" with n up to MaxPadding may exist
MaxMaterials == 3
\* names a material map may define or extend
MaxSteps == 4
\* steps written in the named transforms of one yaml text, all names together
MaxChain == 3
\* builder calls chained on one Tr or Transformation

----------------------------------------------------------------------------
(* Fixed-point reals and colours *)

One == 100

Mul(a, b) == (a * b) \div One

Div(a, b) == (a * One) \div b

\* f64::sqrt on a value in [0, 1]
Sqrt(x) == CHOOSE k \in 0..One : k * k <= x * One /\ (k + 1) * (k + 1) > x * One

black == 0

white == One

\* Option<T>
None == <<>>

Some(x) == <<x>>

----------------------------------------------------------------------------
(* Ray and intersection pipeline (ray.rs) *)

Intersection(t, o) == [t |-> t, object |-> o]

Range(s) == {s[i] : i \in 1..Len(s)}

Front(s) == SubSeq(s, 1, Len(s) - 1)

Last(s) == s[Len(s)]

\* Shape::intersect_with against one object: isect[o] is the sequence of t values
\* the local test gives (sphere: none or two, plane: none or one); each is made
\* an Intersection of that object.
intersect_with(isect, o) == [i \in 1..Len(isect[o]) |-> Intersection(isect[o][i], o)]

\* a.t.total_cmp(&b.t) is not Greater
total_cmp_le(a, b) == a.t <= b.t

\* Vec::sort_by is stable: an element is placed after every element that does
\* not compare greater.
RECURSIVE insert_sorted(_, _)
insert_sorted(s, x) ==
    IF s = <<>> THEN <<x>>
    ELSE IF total_cmp_le(Last(s), x) THEN Append(s, x)
    ELSE Append(insert_sorted(Front(s), x), Last(s))

RECURSIVE sort_by(_)
sort_by(v) == IF v = <<>> THEN <<>> ELSE insert_sorted(sort_by(Front(v)), Last(v))

\* the for loop of when_intersect_world: push every object's intersections
RECURSIVE push_all(_, _)
push_all(objs, isect) ==
    IF objs = <<>> THEN <<>>
    ELSE push_all(Front(objs), isect) \o intersect_with(isect, Last(objs))

\* a when_intersect_world that leaves the list as pushed
when_intersect_world_unsorted(objs, isect) == push_all(objs, isect)

when_intersect_world(objs, isect) == sort_by(push_all(objs, isect))

\* a hit that skips t = 0 too
skipped_zero(x) == x.t <= 0

\* hit: `if x.t < 0.0 { continue; }`
skipped(x) == x.t < 0

\* a hit that lets a later element of equal t replace the one found
replaces_on_equal(x, y) == x.t <= y.t

\* hit: `Some(y) if x.t < y.t => res = Some(x)`
replaces(x, y) == x.t < y.t

RECURSIVE hit_scan(_, _, _)
hit_scan(v, i, res) ==
    IF i > Len(v) THEN res
    ELSE IF skipped(v[i]) THEN hit_scan(v, i + 1, res)
    ELSE IF res = None THEN hit_scan(v, i + 1, Some(v[i]))
    ELSE IF replaces(v[i], res[1]) THEN hit_scan(v, i + 1, Some(v[i]))
    ELSE hit_scan(v, i + 1, res)

hit(v) == hit_scan(v, 1, None)

\* prepare_computations, n1 and n2: the refractive index of the last object of
\* the container of objects entered and not yet left (1.0 when it is empty)
top_refractive_index(c) == IF c = <<>> THEN One ELSE material[Last(c)].refractive_index

\* a container that is only ever pushed to
enter_only(c, o) == Append(c, o)

\* prepare_computations: an object in the container is removed (the ray leaves
\* it), any other is pushed (the ray enters it)
enter_or_exit(c, o) ==
    IF o \in Range(c) THEN SelectSeq(c, LAMBDA q : q # o) ELSE Append(c, o)

\* prepare_computations: walk the list up to the first element equal to the hit
RECURSIVE n1_n2_walk(_, _, _, _)
n1_n2_walk(v, i, c, target) ==
    IF i > Len(v) THEN [n1 |-> One, n2 |-> One]
    ELSE IF v[i] = target
         THEN [n1 |-> top_refractive_index(c),
               n2 |-> top_refractive_index(enter_or_exit(c, v[i].object))]
    ELSE n1_n2_walk(v, i + 1, enter_or_exit(c, v[i].object), target)

n1_n2(target, v) == n1_n2_walk(v, 1, <<>>, target)

----------------------------------------------------------------------------
(* Materials (light.rs) *)

\* Material::default()
DefaultMaterial ==
    [color |-> One, ambient |-> 10, diffuse |-> 90, specular |-> 90, shininess |-> 200,
     reflective |-> 0, transparency |-> 0, refractive_index |-> One]

\* glass_sphere().map_material(|m| m.with_refractive_index(..)): the spheres of
\* finding_n1_and_n2_at_intersections have 1.5, 2.0, 2.5; each further one 0.5 more
GlassSphere(o) ==
    [DefaultMaterial EXCEPT !.transparency = One, !.refractive_index = One + 50 * o]

----------------------------------------------------------------------------
(* Scenes.  The vector geometry of a scene is a table: for each ray, the t   *)
(* values each object's intersect_with gives, and at the ray's hit the angle  *)
(* cos_i = eyev . normalv, the reflected ray Ray(over_point, reflectv), the   *)
(* refracted ray from under_point, the shadow ray from over_point to the      *)
(* light with the distance to the light, and the dot products of lighting.    *)
(* No ray of the tables meets two objects at the same t.                      *)

G(ts1, ts2, cos_i, reflect, refract, shadow, dist, ldn, rde) ==
    [ts |-> <<ts1, ts2>>, cos_i |-> cos_i, reflect |-> reflect, refract |-> refract,
     shadow |-> shadow, dist |-> dist, ldn |-> ldn, rde |-> rde]

\* a ray that has no hit or is cast only as a shadow ray: its geometry at the
\* hit is never read
Unshaded(ts1, ts2) == G(ts1, ts2, 0, 1, 1, 1, 0, 0, 0)

\* color_at_with_mutually_reflective_surfaces: object 1 is the plane y = -1,
\* object 2 the plane y = 1, the light is at the origin
FacingPlanes ==
    <<G(<<-100>>, <<100>>, One, 2, 4, 2, 100, One, One),  \* up from the origin
      G(<<199>>, <<-1>>, One, 3, 5, 3, 100, One, One),    \* down from the upper plane
      G(<<-1>>, <<199>>, One, 2, 4, 2, 100, One, One),    \* up from the lower plane
      Unshaded(<<-201>>, <<-1>>),                             \* up, above the upper plane
      Unshaded(<<-1>>, <<-201>>),                             \* down, below the lower plane
      Unshaded(<<>>, <<>>)>>                                  \* along the planes

\* object 1 is the unit sphere at the origin, object 2 the plane z = 10, the
\* light is at (0, 0, -10).  Rays 1 to 7 run along the z axis; rays 8 to 13 lie
\* in the plane z = 0, where ray 8 (the ray of
\* refracted_color_under_total_internal_refraction) starts inside the sphere
\* and is reflected around it at 45 degrees.
SphereAndWall ==
    <<G(<<400, 600>>, <<1500>>, One, 2, 3, 2, 900, One, One),     \* from z = -5 to the sphere
      Unshaded(<<-201, -1>>, <<-1100>>),                              \* away from the sphere, to -z
      G(<<-1, 199>>, <<1100>>, One, 4, 5, 4, 1100, One, One),     \* inside the sphere, to +z
      G(<<-1, 199>>, <<-900>>, One, 3, 2, 14, 900, -One, One),    \* inside the sphere, to -z
      G(<<-201, -1>>, <<900>>, One, 6, 7, 6, 2000, One, One),     \* from the sphere to the wall
      G(<<800, 1000>>, <<-1>>, One, 5, 4, 15, 1100, -One, One),   \* from the wall to the sphere
      Unshaded(<<-1101, -901>>, <<-1>>),                              \* behind the wall
      G(<<-71, 71>>, <<>>, 71, 9, 13, 16, 1000, 10, 7),           \* inside, off the axis
      G(<<-1, 141>>, <<>>, 71, 10, 13, 16, 1000, 10, 7),
      G(<<-1, 141>>, <<>>, 71, 11, 13, 16, 1000, 10, 7),
      G(<<-1, 141>>, <<>>, 71, 12, 13, 16, 1000, 10, 7),
      G(<<-1, 141>>, <<>>, 71, 9, 13, 16, 1000, 10, 7),
      Unshaded(<<-142, -1>>, <<>>),                                   \* out of the sphere, in z = 0
      Unshaded(<<-199, 1>>, <<-1100>>),                               \* shadow ray of 4: leaves the sphere
      Unshaded(<<1, 201>>, <<-900>>),                                 \* shadow ray of 6: through the sphere
      Unshaded(<<-4, 4>>, <<-1000>>)>>                                 \* shadow ray of 8 to 12

Scenes == <<FacingPlanes, SphereAndWall>>

\* the rays a caller of color_of_ray starts with
PrimaryRays == <<{1, 6}, {1, 8}>>

\* Shape::intersect_with of every object of the scene for ray r
Isect(r) == Scenes[scene][r].ts

----------------------------------------------------------------------------
(* Light and shading kernel (light.rs, world.rs) *)

\* the materials of the tests: default, with_reflective(1.0), glass_sphere,
\* the floor of shade_hit_with_transparent_material, transparent with the
\* default refractive index, reflective and transparent
Materials ==
    {DefaultMaterial,
     [DefaultMaterial EXCEPT !.reflective = One],
     [DefaultMaterial EXCEPT !.transparency = One, !.refractive_index = 150],
     [DefaultMaterial EXCEPT !.transparency = 50, !.refractive_index = 150],
     [DefaultMaterial EXCEPT !.transparency = One],
     [DefaultMaterial EXCEPT !.reflective = 50, !.transparency = 50, !.refractive_index = 150]}

\* f64::powf for a base in [0, 1]
RECURSIVE powf(_, _)
powf(x, n) ==
    IF n = 0 \/ x = One THEN One
    ELSE IF x = 0 THEN 0
    ELSE Mul(x, powf(x, n - 1))

\* self.light.unwrap_or(PointLight::new(Point::origin(), Color::black())).intensity
intensity == IF light THEN white ELSE black

\* an is_shadowed that takes any hit for a shadow, wherever the light is
is_shadowed_by_any_hit(isect, distance) ==
    IF ~light THEN TRUE
    ELSE hit(when_intersect_world(objects, isect)) # None

\* is_shadowed, for a point whose ray to the light meets the objects as isect
\* says and whose distance to the light is distance
is_shadowed_at(isect, distance) ==
    IF ~light THEN TRUE
    ELSE LET i == hit(when_intersect_world(objects, isect)) IN
         IF i = None THEN FALSE ELSE i[1].t < distance

\* is_shadowed for the point whose ray to the light is r, at distance dist
is_shadowed(r, dist) == is_shadowed_at(Isect(r), dist)

\* lighting, for a material without pattern
lighting(m, ldn, rde, in_shadow) ==
    LET effective_color == Mul(m.color, intensity)
        ambient == Mul(effective_color, m.ambient)
        diffuse == IF ldn < 0 THEN black ELSE Mul(Mul(effective_color, m.diffuse), ldn)
        specular == IF ldn < 0 \/ rde < 0 THEN black
                    ELSE Mul(Mul(intensity, m.specular), powf(rde, m.shininess))
    IN IF in_shadow THEN ambient ELSE ambient + diffuse + specular

\* prepare_computations(r, Some(&xs)) for the hit i of ray r
prepare_computations(i, r, v) ==
    [object |-> i.object, t |-> i.t, ray |-> r,
     n1 |-> n1_n2(i, v).n1, n2 |-> n1_n2(i, v).n2,
     cos_i |-> Scenes[scene][r].cos_i,
     reflect |-> Scenes[scene][r].reflect,
     refract |-> Scenes[scene][r].refract]

\* a bounce that passes its own limit on
same_limit(limit) == limit

\* limit - 1 on a u16
minus_one(limit) == (limit - 1) % 65536

\* what a call of reflected_color or refracted_color does before it returns:
\* either it returns color, or it casts ray with limit and waits for its colour
Returns(c) == [cast |-> FALSE, color |-> c, ray |-> 0, limit |-> 0]

Casts(r, l) == [cast |-> TRUE, color |-> black, ray |-> r, limit |-> l]

\* a reflected_color that looks at the material before the limit
reflected_color_material_first(m, c, limit) ==
    IF m.reflective = 0 THEN Returns(black)
    ELSE IF limit <= 0 THEN Returns(white)
    ELSE Casts(c.reflect, minus_one(limit))

\* a reflected_color without the test of the limit
reflected_color_unguarded(m, c, limit) ==
    IF m.reflective = 0 THEN Returns(black)
    ELSE Casts(c.reflect, minus_one(limit))

\* reflected_color, to the call of color_of_ray
reflected_color(m, c, limit) ==
    IF limit <= 0 THEN Returns(white)
    ELSE IF m.reflective = 0 THEN Returns(black)
    ELSE Casts(c.reflect, minus_one(limit))

\* refracted_color: sin2_t
sin2_t(c) ==
    LET n_ratio == Div(c.n1, c.n2) IN
    Mul(Mul(n_ratio, n_ratio), One - Mul(c.cos_i, c.cos_i))

\* a refracted_color that looks at the angle before the limit and the material
refracted_color_angle_first(m, c, limit) ==
    IF sin2_t(c) > One THEN Returns(white)
    ELSE IF limit <= 0 \/ m.transparency = 0 THEN Returns(black)
    ELSE Casts(c.refract, minus_one(limit))

\* a refracted_color without the test for total internal reflection
refracted_color_always_casts(m, c, limit) ==
    IF limit <= 0 \/ m.transparency = 0 THEN Returns(black)
    ELSE Casts(c.refract, minus_one(limit))

\* refracted_color, to the call of color_of_ray
refracted_color(m, c, limit) ==
    IF limit <= 0 \/ m.transparency = 0 THEN Returns(black)
    ELSE IF sin2_t(c) > One THEN Returns(white)
    ELSE Casts(c.refract, minus_one(limit))

\* schlick
schlick(c) ==
    LET tir == c.n1 > c.n2 /\ sin2_t(c) > One
        cos == IF c.n1 > c.n2 THEN Sqrt(One - sin2_t(c)) ELSE c.cos_i
        r == Div(c.n1 - c.n2, c.n1 + c.n2)
        r0 == Mul(r, r)
    IN IF tir THEN One ELSE r0 + Mul(One - r0, powf(One - cos, 5))

\* shade_hit: `material.refractive_index() > 0.0 && material.transparency() > 0.0`
uses_schlick(m) == m.refractive_index > 0 /\ m.transparency > 0

\* shade_hit, once surface, reflected and refracted are known
shade_hit(m, c, surface, reflected, refracted) ==
    IF uses_schlick(m)
    THEN surface + Mul(reflected, schlick(c)) + Mul(refracted, One - schlick(c))
    ELSE surface + reflected + refracted

----------------------------------------------------------------------------
(* States in which a part of the program is not in use *)

NoTrace == light = FALSE /\ scene = 0 /\ stack = <<>> /\ result = None

NoComps == [idx |-> 0, n1 |-> One, n2 |-> One]

NoShadow == point = <<>>

NoCanvas == canvas = <<>> /\ call = <<>> /\ camera = <<>> /\ picture = 0 /\ tasks = <<>> /\ ppm = <<>>

NoUid == UID = 0 /\ got = <<>> /\ shapes = <<>> /\ outcome = "idle"

NoPath == path = <<>>

NoYaml == reprs = <<>>

NoRest == trs = <<>> /\ tr = <<>> /\ fmt = <<>>

NoOut == NoShadow /\ NoCanvas /\ NoUid /\ NoPath /\ NoYaml /\ NoRest

----------------------------------------------------------------------------
(* hit applied to hand-built lists, as in the tests of ray.rs *)

Lists(S, n) == UNION {[1..k -> S] : k \in 0..n}

BuiltIntersections == {Intersection(t, o) : t \in -MaxT..MaxT, o \in 1..2}

InitHit ==
    /\ NoOut
    /\ NoTrace
    /\ objects = <<1, 2>>
    /\ material = [o \in 1..2 |-> DefaultMaterial]
    /\ ray = <<>>
    /\ xs \in Lists(BuiltIntersections, MaxLen)
    /\ h = None
    /\ comps = NoComps
    /\ before = None
    /\ pc = "xs"

Hit ==
    /\ pc = "xs"
    /\ h' = hit(xs)
    /\ pc' = "hit"
    /\ UNCHANGED <<objects, material, traceVars, outVars, ray, xs, comps, before>>

NextHit == Hit

SpecHit == InitHit /\ [][NextHit]_vars

\* C7: hit returns none exactly when no element has t >= 0 (the empty list
\* included); otherwise it returns an element of the list whose t is >= 0 and
\* is the least t >= 0 of the list, whatever the order of the list; t = 0 counts.
HitIsLeastNonNegative ==
    pc = "hit" =>
        LET nonneg == {i \in 1..Len(xs) : xs[i].t >= 0} IN
        /\ (h = None) <=> (nonneg = {})
        /\ h # None =>
              /\ \E i \in nonneg : xs[i] = h[1]
              /\ \A i \in nonneg : h[1].t <= xs[i].t

\* an unsorted list with a negative element whose hit is at t = 0
HitAtZeroReached ==
    /\ pc = "hit"
    /\ Len(xs) = 3
    /\ xs[1].t > 0
    /\ xs[2].t < 0
    /\ xs[3].t = 0
    /\ h = Some(xs[3])

----------------------------------------------------------------------------
(* A world of one sphere and planes: a ray is traced, the objects are put in  *)
(* another order, and the same ray is traced again                            *)

WorldObjects == 1..MaxObjects

WorldT == -MaxWorldT..MaxWorldT

\* Sphere::local_intersect_with: nothing, or t1 <= t2
SphereHits == {<<>>} \cup {w \in WorldT \X WorldT : w[1] <= w[2]}

\* Plane::local_intersect_with: nothing, or one t
PlaneHits == {<<>>} \cup {<<t>> : t \in WorldT}

\* what each object's intersect_with gives for one ray
WorldRays == {f \in [WorldObjects -> SphereHits \cup PlaneHits] :
                 /\ f[1] \in SphereHits
                 /\ \A o \in WorldObjects \ {1} : f[o] \in PlaneHits}

Orders == {p \in [WorldObjects -> WorldObjects] : \A i, j \in WorldObjects : p[i] = p[j] => i = j}

InitWorld ==
    /\ NoOut
    /\ NoTrace
    /\ objects = [i \in WorldObjects |-> i]
    /\ material = [o \in WorldObjects |-> DefaultMaterial]
    /\ ray = <<>>
    /\ xs = <<>>
    /\ h = None
    /\ comps = NoComps
    /\ before = None
    /\ pc = "idle"

\* World::color_of_ray up to the selection of the hit.  After a reordering the
\* ray traced is the one traced before it.
TraceRay ==
    /\ pc = "idle"
    /\ \E isect \in WorldRays :
          /\ before # None => isect = before[1].ray
          /\ ray' = isect
          /\ xs' = when_intersect_world(objects, isect)
          /\ h' = hit(when_intersect_world(objects, isect))
    /\ pc' = "hit"
    /\ UNCHANGED <<objects, material, traceVars, outVars, comps, before>>

\* World::with_objects with the same objects in another order
WithObjects ==
    /\ pc = "hit"
    /\ before = None
    /\ \E p \in Orders \ {objects} : objects' = p
    /\ before' = Some([ray |-> ray, xs |-> xs, h |-> h])
    /\ xs' = <<>>
    /\ h' = None
    /\ pc' = "idle"
    /\ UNCHANGED <<material, traceVars, outVars, ray, comps>>

NextWorld == TraceRay \/ WithObjects

SpecWorld == InitWorld /\ [][NextWorld]_vars

Count(s, x) == Cardinality({i \in 1..Len(s) : s[i] = x})

\* C8: the list when_intersect_world returns is in non-decreasing t and holds
\* each object's intersections with the ray exactly as often as the object's
\* intersect_with gave them, negative t included, and nothing else.
WorldIntersectionsSortedPermutation ==
    pc = "hit" =>
        /\ \A i \in 1..Len(xs) - 1 : xs[i].t <= xs[i + 1].t
        /\ \A i \in 1..Len(xs) : xs[i].object \in WorldObjects /\ xs[i].t \in WorldT
        /\ \A o \in WorldObjects : \A t \in WorldT :
              Count(xs, Intersection(t, o)) = Count(ray[o], t)

\* a ray that grazes the sphere (t1 = t2), meets planes behind its origin, and
\* whose intersections the loop pushed out of order
WorldIntersectionsReached ==
    /\ pc = "hit"
    /\ Len(xs) >= 4
    /\ Len(ray[1]) = 2
    /\ ray[1][1] = ray[1][2]
    /\ \E i \in 1..Len(xs) : xs[i].t < 0 /\ xs[i].object # 1
    /\ xs # push_all(objects, ray)

NoTies(v) == \A i, j \in 1..Len(v) : v[i].t = v[j].t => v[i].object = v[j].object

Position(o) == CHOOSE i \in 1..Len(objects) : objects[i] = o

----------------------------------------------------------------------------
(* prepare_computations on the full intersection list of a ray through glass  *)
(* spheres, for every element of the list as the target                        *)

Spheres == 1..MaxSpheres

\* the intersection list of finding_n1_and_n2_at_intersections: A (index 1.5)
\* contains B (2.0) and C (2.5), which overlap
ExampleXs ==
    <<Intersection(200, 1), Intersection(275, 2), Intersection(325, 3),
      Intersection(475, 2), Intersection(525, 3), Intersection(600, 1)>>

\* the (n1, n2) the test expects at each of the six
ExampleN1N2 ==
    <<<<100, 150>>, <<150, 200>>, <<200, 250>>, <<250, 250>>, <<250, 150>>, <<150, 100>>>>

\* a ray meets each sphere at most twice; the i-th intersection has t = i
SphereLists ==
    {[i \in 1..Len(s) |-> Intersection(i, s[i])] :
        s \in {q \in Lists(Spheres, 2 * MaxSpheres) :
                  \A o \in Spheres : Count(q, o) <= 2}}

InitPrep ==
    /\ NoOut
    /\ NoTrace
    /\ objects = [i \in Spheres |-> i]
    /\ material = [o \in Spheres |-> GlassSphere(o)]
    /\ ray = <<>>
    /\ xs \in SphereLists \cup {ExampleXs}
    /\ h = None
    /\ comps = NoComps
    /\ before = None
    /\ pc = "xs"

\* xs[i].prepare_computations(r, Some(&xs))
PrepareComputations ==
    /\ pc = "xs"
    /\ \E i \in 1..Len(xs) :
          comps' = [idx |-> i, n1 |-> n1_n2(xs[i], xs).n1, n2 |-> n1_n2(xs[i], xs).n2]
    /\ pc' = "comps"
    /\ UNCHANGED <<objects, material, traceVars, outVars, ray, xs, h, before>>

NextPrep == PrepareComputations

SpecPrep == InitPrep /\ [][NextPrep]_vars

\* the objects the ray is inside after the first k intersections: those it has
\* met an odd number of times
InsideAfter(k) ==
    {o \in Spheres : Cardinality({i \in 1..k : xs[i].object = o}) % 2 = 1}

\* where the ray last entered o among the first k intersections
EnteredAt(o, k) == CHOOSE j \in 1..k : xs[j].object = o /\ \A i \in j + 1..k : xs[i].object # o

\* the refractive index of the object most recently entered and not yet left
\* after the first k intersections, 1.0 when there is none
MediumAfter(k) ==
    IF InsideAfter(k) = {} THEN One
    ELSE LET o == CHOOSE q \in InsideAfter(k) :
                      \A r \in InsideAfter(k) : EnteredAt(r, k) <= EnteredAt(q, k)
         IN material[o].refractive_index

\* C10: at the target, n1 is the refractive index of the object most recently
\* entered and not yet left before the target is processed and n2 the same after
\* it is processed (an object already entered leaves, any other enters), 1.0
\* when there is none; the six intersections of the three glass spheres give
\* (1.0,1.5) (1.5,2.0) (2.0,2.5) (2.5,2.5) (2.5,1.5) (1.5,1.0).
N1N2FollowTheContainer ==
    pc = "comps" =>
        /\ comps.n1 = MediumAfter(comps.idx - 1)
        /\ comps.n2 = MediumAfter(comps.idx)
        /\ xs = ExampleXs => <<comps.n1, comps.n2>> = ExampleN1N2[comps.idx]

\* the fourth intersection of the example: the ray leaves B while inside C
N1N2ExampleReached ==
    /\ pc = "comps"
    /\ xs = ExampleXs
    /\ comps.idx = 4
    /\ comps.n1 = 250
    /\ comps.n2 = 250

----------------------------------------------------------------------------
(* The recursion of color_of_ray, one active call per frame of the stack *)

TraceObjects == 1..2

Frame(r, limit) ==
    [ray |-> r, limit |-> limit, pc |-> "color_of_ray",
     surface |-> black, reflected |-> black, refracted |-> black, color |-> black]

Top == stack[Len(stack)]

\* the intersections of the ray of frame f, its hit and the prepared hit
XsOf(f) == when_intersect_world(objects, Isect(f.ray))

CompsOf(f) == prepare_computations(hit(XsOf(f))[1], f.ray, XsOf(f))

MaterialOf(f) == material[CompsOf(f).object]

SetTop(f) == stack' = [stack EXCEPT ![Len(stack)] = f]

InitTrace ==
    /\ NoOut
    /\ objects = [i \in TraceObjects |-> i]
    /\ material \in [TraceObjects -> Materials]
    /\ light \in BOOLEAN
    /\ scene \in 1..Len(Scenes)
    /\ stack = <<>>
    /\ result = None
    /\ ray = <<>>
    /\ xs = <<>>
    /\ h = None
    /\ comps = NoComps
    /\ before = None
    /\ pc = "idle"

\* a caller (Camera::render, a test) calls world.color_of_ray(r, limit)
Call ==
    /\ stack = <<>>
    /\ result = None
    /\ \E r \in PrimaryRays[scene], limit \in 0..MaxDepth : stack' = <<Frame(r, limit)>>
    /\ UNCHANGED <<objects, material, light, scene, result, pipeVars, outVars>>

\* color_of_ray: no intersection or no hit returns black, a hit goes to shade_hit
ColorOfRay ==
    /\ stack # <<>>
    /\ Top.pc = "color_of_ray"
    /\ IF Len(XsOf(Top)) = 0 \/ hit(XsOf(Top)) = None
       THEN SetTop([Top EXCEPT !.pc = "return", !.color = black])
       ELSE SetTop([Top EXCEPT !.pc = "shade_hit"])
    /\ UNCHANGED <<objects, material, light, scene, result, pipeVars, outVars>>

\* shade_hit: surface = lighting(.., is_shadowed(self, c.over_point))
ShadeHitSurface ==
    /\ stack # <<>>
    /\ Top.pc = "shade_hit"
    /\ LET g == Scenes[scene][Top.ray] IN
       SetTop([Top EXCEPT !.pc = "reflected_color",
                          !.surface = lighting(MaterialOf(Top), g.ldn, g.rde,
                                               is_shadowed(g.shadow, g.dist))])
    /\ UNCHANGED <<objects, material, light, scene, result, pipeVars, outVars>>

\* shade_hit: reflected = reflected_color(self, &c, limit), up to its return or
\* its call of color_of_ray
ReflectedColor ==
    /\ stack # <<>>
    /\ Top.pc = "reflected_color"
    /\ LET out == reflected_color(MaterialOf(Top), CompsOf(Top), Top.limit) IN
       IF out.cast
       THEN /\ Len(stack) <= MaxDepth + 1
            /\ stack' = Append([stack EXCEPT ![Len(stack)].pc = "reflecting"],
                               Frame(out.ray, out.limit))
       ELSE SetTop([Top EXCEPT !.pc = "refracted_color", !.reflected = out.color])
    /\ UNCHANGED <<objects, material, light, scene, result, pipeVars, outVars>>

\* shade_hit: refracted = refracted_color(self, &c, limit), up to its return or
\* its call of color_of_ray
RefractedColor ==
    /\ stack # <<>>
    /\ Top.pc = "refracted_color"
    /\ LET out == refracted_color(MaterialOf(Top), CompsOf(Top), Top.limit) IN
       IF out.cast
       THEN /\ Len(stack) <= MaxDepth + 1
            /\ stack' = Append([stack EXCEPT ![Len(stack)].pc = "refracting"],
                               Frame(out.ray, out.limit))
       ELSE SetTop([Top EXCEPT !.pc = "combine", !.refracted = out.color])
    /\ UNCHANGED <<objects, material, light, scene, result, pipeVars, outVars>>

\* shade_hit: the sum, weighted by the reflectance or not
ShadeHitReturn ==
    /\ stack # <<>>
    /\ Top.pc = "combine"
    /\ SetTop([Top EXCEPT !.pc = "return",
                          !.color = shade_hit(MaterialOf(Top), CompsOf(Top), Top.surface,
                                              Top.reflected, Top.refracted)])
    /\ UNCHANGED <<objects, material, light, scene, result, pipeVars, outVars>>

\* color_of_ray returns: to the caller outside, or into the reflected_color or
\* refracted_color that cast the ray, which scales the colour and returns
Return ==
    /\ stack # <<>>
    /\ Top.pc = "return"
    /\ IF Len(stack) = 1
       THEN /\ stack' = <<>>
            /\ result' = Some(Top.color)
       ELSE LET caller == stack[Len(stack) - 1]
                m == MaterialOf(caller)
            IN /\ stack' = Append(SubSeq(stack, 1, Len(stack) - 2),
                     IF caller.pc = "reflecting"
                     THEN [caller EXCEPT !.pc = "refracted_color",
                                         !.reflected = Mul(Top.color, m.reflective)]
                     ELSE [caller EXCEPT !.pc = "combine",
                                         !.refracted = Mul(Top.color, m.transparency)])
               /\ UNCHANGED result
    /\ UNCHANGED <<objects, material, light, scene, pipeVars, outVars>>

Step == ColorOfRay \/ ShadeHitSurface \/ ReflectedColor \/ RefractedColor \/ ShadeHitReturn \/ Return

NextTrace == Call \/ Step

SpecTrace == InitTrace /\ [][NextTrace]_vars

\* the nested calls of color_of_ray: each was given one less than its caller,
\* so there are at most d + 1 of them under a call with limit d
ChainBounded ==
    stack # <<>> =>
        /\ Len(stack) <= stack[1].limit + 1
        /\ \A i \in 2..Len(stack) : stack[i].limit = stack[i - 1].limit - 1

\* the most steps a call with this limit takes: six of its own and two nested calls
RECURSIVE Work(_)
Work(limit) == IF limit < 0 THEN 0 ELSE 6 + 2 * Work(limit - 1)

\* the most steps a frame still takes, the nested call in progress not counted
Remaining(f) ==
    LET w == Work(f.limit - 1) IN
    CASE f.pc = "color_of_ray" -> 6 + 2 * w
      [] f.pc = "shade_hit" -> 5 + 2 * w
      [] f.pc = "reflected_color" -> 4 + 2 * w
      [] f.pc = "reflecting" -> 3 + w
      [] f.pc = "refracted_color" -> 3 + w
      [] f.pc = "refracting" -> 2
      [] f.pc = "combine" -> 2
      [] f.pc = "return" -> 1

RECURSIVE RemainingOf(_)
RemainingOf(st) == IF st = <<>> THEN 0 ELSE RemainingOf(Front(st)) + Remaining(Last(st))

\* C1: color_of_ray(ray, d) terminates: every nested color_of_ray call made
\* through reflected_color or refracted_color receives limit - 1, no chain of
\* nested calls is longer than d + 1, and every step of a call in progress
\* lowers the count of the steps that remain, which is never negative; also
\* between two facing planes with reflective = 1.
ColorOfRayTerminates ==
    /\ []ChainBounded
    /\ [][stack # <<>> =>
            /\ RemainingOf(stack') < RemainingOf(stack)
            /\ RemainingOf(stack') >= 0]_vars

\* the ray between the two facing mirrors, at the deepest call, about to return
\* white from reflected_color
FacingMirrorsDeepestReached ==
    /\ scene = 1
    /\ \A o \in TraceObjects : material[o].reflective = One
    /\ Len(stack) = MaxDepth + 1
    /\ Top.limit = 0
    /\ Top.pc = "reflected_color"
    /\ stack[1].ray = 1

----------------------------------------------------------------------------
(* shade_hit and its two recursive contributions *)

\* the hit of the top call's ray exists and shade_hit has returned its colour
ShadeHitReturned == stack # <<>> /\ Top.pc = "return" /\ hit(XsOf(Top)) # None

\* lighting(material, object, light, over_point, eyev, normalv, is_shadowed(over_point))
\* at the hit of the top call's ray
LightingOf(f) ==
    LET g == Scenes[scene][f.ray] IN
    lighting(MaterialOf(f), g.ldn, g.rde, is_shadowed(g.shadow, g.dist))

\* C2: for a material with reflective = 0 and transparency = 0, shade_hit(comps,
\* depth) equals lighting(.., is_shadowed(over_point)) exactly, for every depth
\* >= 0 that color_of_ray passes to it.
ShadeHitIsLightingWhenMatte ==
    (ShadeHitReturned /\ MaterialOf(Top).reflective = 0 /\ MaterialOf(Top).transparency = 0)
        => Top.color = LightingOf(Top)

\* C3: shade_hit weights reflected and refracted by the Schlick reflectance only
\* when the material is both reflective and transparent; otherwise, as for a
\* transparent material with reflective = 0, the result is the plain sum
\* surface + reflected + refracted.
SchlickOnlyWhenReflectiveAndTransparent ==
    (ShadeHitReturned /\ ~(MaterialOf(Top).reflective > 0 /\ MaterialOf(Top).transparency > 0))
        => Top.color = Top.surface + Top.reflected + Top.refracted

\* C4: reflected_color with depth 0 returns white and casts no ray; with depth
\* > 0 and reflective = 0 it returns black and casts no ray; otherwise it casts
\* Ray(over_point, reflectv) with depth - 1 and returns the colour of that call
\* multiplied by reflective.
ReflectedColorContract ==
    [][/\ (stack # <<>> /\ Top.pc = "reflected_color") =>
              LET m == MaterialOf(Top)
                  returned == /\ Len(stack') = Len(stack)
                              /\ Top' = [Top EXCEPT !.pc = "refracted_color",
                                                    !.reflected = Top'.reflected]
              IN /\ Top.limit = 0 => (returned /\ Top'.reflected = white)
                 /\ (Top.limit > 0 /\ m.reflective = 0) => (returned /\ Top'.reflected = black)
                 /\ (Top.limit > 0 /\ m.reflective # 0) =>
                        /\ Len(stack') = Len(stack) + 1
                        /\ Top' = Frame(CompsOf(Top).reflect, Top.limit - 1)
                        /\ stack'[Len(stack)] = [Top EXCEPT !.pc = "reflecting"]
       /\ (Len(stack) > 1 /\ Top.pc = "return" /\ stack[Len(stack) - 1].pc = "reflecting") =>
              LET caller == stack[Len(stack) - 1] IN
              /\ Len(stack') = Len(stack) - 1
              /\ Top' = [caller EXCEPT !.pc = "refracted_color",
                                       !.reflected = Mul(Top.color, MaterialOf(caller).reflective)]
      ]_vars

\* a half reflective surface whose reflected ray came back with a colour
ReflectedColorReturnedScaled ==
    /\ stack # <<>>
    /\ Top.pc = "refracted_color"
    /\ Top.limit > 0
    /\ MaterialOf(Top).reflective = 50
    /\ Top.reflected > 0
    /\ Top.reflected < white

\* C5: refracted_color returns black and casts no ray whenever depth = 0 or the
\* transparency of the hit object is 0, whatever n1, n2 and the viewing angle.
RefractedColorBlackAtLimitOrOpaque ==
    [][(stack # <<>> /\ Top.pc = "refracted_color"
            /\ (Top.limit = 0 \/ MaterialOf(Top).transparency = 0)) =>
           /\ Len(stack') = Len(stack)
           /\ Top' = [Top EXCEPT !.pc = "combine", !.refracted = black]]_vars

\* (n1 / n2)^2 * (1 - cos_i^2) at the hit of frame f
Sin2tOf(f) ==
    LET c == CompsOf(f)
        n_ratio == Div(c.n1, c.n2)
    IN Mul(Mul(n_ratio, n_ratio), One - Mul(c.cos_i, c.cos_i))

\* refracted_color has returned black at depth 0 for a transparent object seen
\* from inside at an angle of total internal reflection
RefractedBlackAtLimitZeroReached ==
    /\ stack # <<>>
    /\ Top.pc = "combine"
    /\ Top.limit = 0
    /\ MaterialOf(Top).transparency > 0
    /\ CompsOf(Top).n1 > CompsOf(Top).n2
    /\ Sin2tOf(Top) > One
    /\ Top.refracted = black

\* C6: when depth > 0, transparency > 0 and sin2_t = (n1/n2)^2 * (1 - cos_i^2)
\* is above 1, refracted_color returns white and makes no call of color_of_ray.
TotalInternalReflectionReturnsWhite ==
    [][(stack # <<>> /\ Top.pc = "refracted_color" /\ Top.limit > 0
            /\ MaterialOf(Top).transparency > 0 /\ Sin2tOf(Top) > One) =>
           /\ Len(stack') = Len(stack)
           /\ Top' = [Top EXCEPT !.pc = "combine", !.refracted = white]]_vars

\* refracted_color_under_total_internal_refraction: the glass sphere seen from
\* inside at 45 degrees, with limit 5 in the test
TotalInternalReflectionReached ==
    /\ stack # <<>>
    /\ Top.pc = "combine"
    /\ Top.limit > 0
    /\ MaterialOf(Top).transparency = One
    /\ MaterialOf(Top).refractive_index = 150
    /\ Sin2tOf(Top) > One
    /\ Top.refracted = white

----------------------------------------------------------------------------
(* is_shadowed asked for a point of a world of one sphere and planes *)

InitShadow ==
    /\ objects = [i \in WorldObjects |-> i]
    /\ light \in BOOLEAN
    /\ material = [o \in WorldObjects |-> DefaultMaterial]
    /\ scene = 0
    /\ stack = <<>>
    /\ result = None
    /\ ray = <<>>
    /\ xs = <<>>
    /\ h = None
    /\ comps = NoComps
    /\ before = None
    /\ pc = "idle"
    /\ NoOut

\* is_shadowed(w, p): the ray from p toward the light meets object o at the ts
\* isect[o]; distance is the magnitude of light.position - p
IsShadowed ==
    /\ point = <<>>
    /\ \E isect \in WorldRays, distance \in 1..MaxDistance :
          point' = [ts |-> isect, distance |-> distance,
                    shadowed |-> is_shadowed_at(isect, distance)]
    /\ UNCHANGED <<coreVars, canvasVars, uidVars, pathVars, yamlVars, restVars>>

NextShadow == IsShadowed

SpecShadow == InitShadow /\ [][NextShadow]_vars

\* C11: is_shadowed is true when the world has no light; otherwise it is true
\* exactly when some object meets the ray from the point toward the light at a
\* t >= 0 and the smallest such t is strictly less than the distance to the
\* light; objects behind the point or beyond the light do not shadow it.
IsShadowedIffHitBeforeLight ==
    point # <<>> =>
        LET ts == UNION {{point.ts[o][k] : k \in 1..Len(point.ts[o])} : o \in WorldObjects}
            nonneg == {t \in ts : t >= 0}
        IN point.shadowed <=>
              \/ ~light
              \/ /\ nonneg # {}
                 /\ (CHOOSE t \in nonneg : \A u \in nonneg : t <= u) < point.distance

\* a lit point with one object behind it and another beyond the light
NotShadowedBehindAndBeyondReached ==
    /\ point # <<>>
    /\ light
    /\ point.ts[1] = <<-1, -1>>
    /\ point.ts[2] = <<1>>
    /\ point.ts[3] = <<>>
    /\ point.distance = 1
    /\ ~point.shadowed

----------------------------------------------------------------------------
(* Canvas (canvas.rs).  pixels[i + 1] is the Vec's element i. *)

\* Canvas::new
CanvasNew(width, height) ==
    [width |-> width, height |-> height, pixels |-> [i \in 1..(width * height) |-> black]]

\* a write_to that tests the index, not the coordinates
write_to_checks_index(c, x, y, color) ==
    IF y * c.width + x >= Len(c.pixels) THEN c
    ELSE [c EXCEPT !.pixels[y * c.width + x + 1] = color]

\* Canvas::write_to
write_to(c, x, y, color) ==
    IF x >= c.width \/ y >= c.height THEN c
    ELSE [c EXCEPT !.pixels[y * c.width + x + 1] = color]

\* Canvas::pixel_at
pixel_at(c, x, y) == c.pixels[y * c.width + x + 1]

----------------------------------------------------------------------------
(* Camera::render (camera.rs): one task per pixel index, in parallel *)

\* Camera::new(hsize, vsize, FRAC_PI_2): half_view = tan(pi / 4) = 1.  With
\* hsize = 0 or vsize = 0 the canvas has no pixel and the sizes are never read.
CameraNew(hsize, vsize) ==
    IF hsize = 0 \/ vsize = 0
    THEN [hsize |-> hsize, vsize |-> vsize, half_width |-> 0, half_height |-> 0, pixel_size |-> 0]
    ELSE LET half_view == One
             aspect == Div(hsize * One, vsize * One)
             half_width == IF aspect >= One THEN half_view ELSE Mul(half_view, aspect)
             half_height == IF aspect >= One THEN Div(half_view, aspect) ELSE half_view
         IN [hsize |-> hsize, vsize |-> vsize, half_width |-> half_width,
             half_height |-> half_height,
             pixel_size |-> Div(2 * half_width, hsize * One)]

\* Camera::ray_for_pixel with the default transform: the ray from the origin
\* through (world_x, world_y, -1)
ray_for_pixel(cam, x, y) ==
    LET xoffset == Mul(x * One + One \div 2, cam.pixel_size)
        yoffset == Mul(y * One + One \div 2, cam.pixel_size)
    IN <<cam.half_width - xoffset, cam.half_height - yoffset>>

\* the worlds a render is given: a world is a pure function from the ray to its
\* colour; 1 is an empty world, 2 is lit from above, 3 and 4 give every ray of
\* the canvas another colour
Pictures == 1..4

\* World::color_at
color_at(w, r) ==
    CASE w = 1 -> black
      [] w = 2 -> IF r[2] > 0 THEN white ELSE black
      [] w = 3 -> (r[1] + One) \div 2
      [] w = 4 -> ((r[1] + One) \div 2 + 3 * ((r[2] + One) \div 2)) % (One + 1)

\* a column taken from the row count
pixel_x_by_vsize(cam, idx) == idx % cam.vsize

\* let x = idx % self.hsize
pixel_x(cam, idx) == idx % cam.hsize

\* let y = idx / self.hsize
pixel_y(cam, idx) == idx \div cam.hsize

InitRender ==
    /\ objects = <<>>
    /\ material = <<>>
    /\ NoTrace
    /\ ray = <<>>
    /\ xs = <<>>
    /\ h = None
    /\ comps = NoComps
    /\ before = None
    /\ pc = "idle"
    /\ NoShadow /\ NoUid /\ NoPath /\ NoYaml /\ NoRest
    /\ \E hsize \in 0..MaxSize, vsize \in 0..MaxSize : camera = CameraNew(hsize, vsize)
    /\ picture \in Pictures
    /\ canvas = <<>>
    /\ call = <<>>
    /\ tasks = <<>>
    /\ ppm = <<>>

\* render: Canvas::new and pixels_mut().par_iter_mut().enumerate(): the task of
\* index idx holds the mutable reference to slot idx
Render ==
    /\ canvas = <<>>
    /\ canvas' = CanvasNew(camera.hsize, camera.vsize)
    /\ tasks' = [idx \in 0..(camera.hsize * camera.vsize - 1) |->
                    [pc |-> "start", px |-> idx, color |-> black, writes |-> 0]]
    /\ UNCHANGED <<coreVars, shadowVars, call, camera, picture, ppm, uidVars, pathVars, yamlVars, restVars>>

\* a task computes x, y, the ray and its colour
TaskColor(idx) ==
    /\ tasks[idx].pc = "start"
    /\ tasks' = [tasks EXCEPT ![idx].pc = "computed",
                              ![idx].color = color_at(picture,
                                  ray_for_pixel(camera, pixel_x(camera, idx), pixel_y(camera, idx)))]
    /\ UNCHANGED <<coreVars, shadowVars, canvas, call, camera, picture, ppm, uidVars, pathVars, yamlVars, restVars>>

\* *px = colour
TaskWrite(idx) ==
    /\ tasks[idx].pc = "computed"
    /\ canvas' = [canvas EXCEPT !.pixels[tasks[idx].px + 1] = tasks[idx].color]
    /\ tasks' = [tasks EXCEPT ![idx].pc = "done", ![idx].writes = @ + 1]
    /\ UNCHANGED <<coreVars, shadowVars, call, camera, picture, ppm, uidVars, pathVars, yamlVars, restVars>>

\* for_each returns when every task is done, and render returns the image
RenderReturn ==
    /\ canvas # <<>>
    /\ ppm = <<>>
    /\ \A idx \in DOMAIN tasks : tasks[idx].pc = "done"
    /\ ppm' = <<"image">>
    /\ UNCHANGED <<coreVars, shadowVars, canvas, call, camera, picture, tasks, uidVars, pathVars, yamlVars, restVars>>

NextRender ==
    \/ Render
    \/ \E idx \in DOMAIN tasks : TaskColor(idx)
    \/ \E idx \in DOMAIN tasks : TaskWrite(idx)
    \/ RenderReturn

SpecRender == InitRender /\ [][NextRender]_vars

\* a sequential render: write_to(x, y, ..) row by row, the first n pixels done
RECURSIVE SequentialRender(_)
SequentialRender(n) ==
    IF n = 0 THEN CanvasNew(camera.hsize, camera.vsize)
    ELSE LET x == (n - 1) % camera.hsize
             y == (n - 1) \div camera.hsize
         IN write_to(SequentialRender(n - 1), x, y,
                     color_at(picture, ray_for_pixel(camera, x, y)))

\* C12: under every interleaving of the per-pixel tasks, a step changes at most
\* the slot of the task that takes it, and only to the colour of
\* ray_for_pixel(idx mod hsize, idx div hsize); each slot is written exactly
\* once; the finished canvas is the one a sequential row-major render gives.
RenderWritesEachSlotOnce ==
    /\ [](canvas # <<>> =>
            /\ \A idx \in DOMAIN tasks : tasks[idx].writes = (IF tasks[idx].pc = "done" THEN 1 ELSE 0)
            /\ ppm # <<>> =>
                  /\ canvas = SequentialRender(camera.hsize * camera.vsize)
                  /\ \A x \in 0..(camera.hsize - 1), y \in 0..(camera.vsize - 1) :
                        pixel_at(canvas, x, y) = color_at(picture, ray_for_pixel(camera, x, y)))
    /\ [][canvas # <<>> =>
            \A idx \in DOMAIN tasks :
                \/ canvas'.pixels[idx + 1] = canvas.pixels[idx + 1] /\ tasks'[idx].writes = tasks[idx].writes
                \/ /\ tasks[idx].pc = "computed" /\ tasks'[idx].pc = "done"
                   /\ \A other \in DOMAIN tasks \ {idx} : tasks'[other] = tasks[other]
                   /\ canvas'.pixels[idx + 1] =
                          color_at(picture, ray_for_pixel(camera, idx % camera.hsize, idx \div camera.hsize))]_vars

\* a finished render of the largest canvas, in a world where all its pixels differ
RenderFinishedReached ==
    /\ ppm # <<>>
    /\ camera.hsize = MaxSize
    /\ camera.vsize = MaxSize
    /\ picture = 4
    /\ \A i, j \in 1..Len(canvas.pixels) : i # j => canvas.pixels[i] # canvas.pixels[j]

----------------------------------------------------------------------------
(* Identities, shapes and their transforms (lib.rs, shapes/, transform.rs,   *)
(* matrix.rs).  A transform is a scaling, the diagonal <<x, y, z>>.           *)

\* a fetch_add whose store is lost
fetch_add_lost(v, n) == [prior |-> v, value |-> v]

\* AtomicUsize::fetch_add(n, SeqCst): one atomic step
fetch_add(v, n) == [prior |-> v, value |-> v + n]

\* get_uid, on the counter value v
get_uid(v) == fetch_add(v, 1)

Ok(x) == [ok |-> TRUE, value |-> x]

Err(e) == [ok |-> FALSE, value |-> e]

\* Tr::default(), Tr::default().scale(2, 2, 2), Tr::default().scale(0, 1, 1)
Transforms == {<<One, One, One>>, <<2 * One, 2 * One, 2 * One>>, <<0, One, One>>}

\* Matrix::det
det(m) == Mul(Mul(m[1], m[2]), m[3])

\* Matrix::is_invertible
is_invertible(m) == det(m) # 0

\* Matrix::inverse
matrix_inverse(m) ==
    IF ~is_invertible(m) THEN Err("Uninvertible")
    ELSE Ok(<<Div(One, m[1]), Div(One, m[2]), Div(One, m[3])>>)

\* what a call that may panic gives
Panic == [panicked |-> TRUE, value |-> <<>>]

Value(x) == [panicked |-> FALSE, value |-> x]

\* Result::unwrap
unwrap(r) == IF r.ok THEN Value(r.value) ELSE Panic

\* Tr::inverse: Tr(self.0.inverse().unwrap())
tr_inverse(t) == unwrap(matrix_inverse(t))

\* Sphere::default, with the id get_uid gave
SphereDefault(id) ==
    [kind |-> "sphere", id |-> id, center |-> 0, transform |-> <<One, One, One>>,
     inv_transform |-> <<>>, norm_transform |-> <<>>, material |-> DefaultMaterial]

\* Plane::default, with the id get_uid gave
PlaneDefault(id) ==
    [kind |-> "plane", id |-> id, center |-> 0, transform |-> <<One, One, One>>,
     inv_transform |-> <<One, One, One>>, norm_transform |-> <<One, One, One>>,
     material |-> DefaultMaterial]

\* Sphere::with_transform, Plane::with_transform (Plane::set_transform): the
\* shape, or the panic of an unwrap
with_transform(s, t) ==
    IF s.kind = "sphere" THEN Value([s EXCEPT !.transform = t])
    ELSE IF tr_inverse(t).panicked \/ unwrap(matrix_inverse(t)).panicked THEN Panic
    ELSE Value([s EXCEPT !.transform = t, !.inv_transform = tr_inverse(t).value,
                         !.norm_transform = unwrap(matrix_inverse(t)).value])

\* Sphere::with_material, Plane::with_material
with_material(s, m) == [s EXCEPT !.material = m]

\* Shape::intersect_with: r.with_transform(self.transform().inverse()); TRUE
\* when it returns, FALSE when it panics
intersect_with_returns(s) == ~tr_inverse(s.transform).panicked

\* impl PartialEq for dyn Shape
shape_eq(a, b) == a.id = b.id

\* #[derive(PartialEq)] on Sphere
sphere_eq(a, b) ==
    /\ a.id = b.id
    /\ a.center = b.center
    /\ a.transform = b.transform
    /\ a.material = b.material

\* impl PartialEq for Plane
plane_eq(a, b) ==
    /\ a.transform = b.transform
    /\ a.inv_transform = b.inv_transform
    /\ a.norm_transform = b.norm_transform
    /\ a.material = b.material

\* Plane::eqx(&self, other): other.downcast_ref::<Plane>().map_or(false, |a| a == self)
eqx(self, other) == IF other.kind = "plane" THEN plane_eq(other, self) ELSE FALSE

Threads == 1..MaxThreads

InitShapes ==
    /\ objects = <<>>
    /\ material = <<>>
    /\ NoTrace
    /\ ray = <<>>
    /\ xs = <<>>
    /\ h = None
    /\ comps = NoComps
    /\ before = None
    /\ pc = "idle"
    /\ NoShadow /\ NoCanvas /\ NoPath /\ NoYaml /\ NoRest
    /\ UID = 0
    /\ got = [t \in Threads |-> <<>>]
    /\ shapes = <<>>
    /\ outcome = "running"

\* a thread calls get_uid for something other than a sphere or a plane
GetUid(t) ==
    /\ outcome = "running"
    /\ Len(got[t]) < MaxCalls
    /\ UID' = get_uid(UID).value
    /\ got' = [got EXCEPT ![t] = Append(@, get_uid(UID).prior)]
    /\ UNCHANGED <<coreVars, shadowVars, canvasVars, shapes, outcome, pathVars, yamlVars, restVars>>

\* a thread constructs Sphere::default() or Plane::default()
ShapeDefault(t) ==
    /\ outcome = "running"
    /\ Len(got[t]) < MaxCalls
    /\ Len(shapes) < MaxShapes
    /\ UID' = get_uid(UID).value
    /\ got' = [got EXCEPT ![t] = Append(@, get_uid(UID).prior)]
    /\ \E s \in {SphereDefault(get_uid(UID).prior), PlaneDefault(get_uid(UID).prior)} :
          shapes' = Append(shapes, s)
    /\ UNCHANGED <<coreVars, shadowVars, canvasVars, outcome, pathVars, yamlVars, restVars>>

\* shapes[i].clone().with_material(m)
WithMaterial(i) ==
    /\ outcome = "running"
    /\ Len(shapes) < MaxShapes
    /\ \E m \in {DefaultMaterial, [DefaultMaterial EXCEPT !.reflective = One]} :
          shapes' = Append(shapes, with_material(shapes[i], m))
    /\ UNCHANGED <<coreVars, shadowVars, canvasVars, UID, got, outcome, pathVars, yamlVars, restVars>>

\* shapes[i].clone().with_transform(t), while the scene is built
WithTransform(i) ==
    /\ outcome = "running"
    /\ Len(shapes) < MaxShapes
    /\ \E t \in Transforms :
          IF with_transform(shapes[i], t).panicked
          THEN outcome' = "with_transform panicked" /\ UNCHANGED shapes
          ELSE shapes' = Append(shapes, with_transform(shapes[i], t).value) /\ UNCHANGED outcome
    /\ UNCHANGED <<coreVars, shadowVars, canvasVars, UID, got, pathVars, yamlVars, restVars>>

\* World::color_of_ray on the world of the shapes built: when_intersect_world
\* calls intersect_with of every object
WorldColorOfRay ==
    /\ outcome = "running"
    /\ shapes # <<>>
    /\ IF \A i \in 1..Len(shapes) : intersect_with_returns(shapes[i])
       THEN outcome' = "color"
       ELSE outcome' = "color_of_ray panicked"
    /\ UNCHANGED <<coreVars, shadowVars, canvasVars, UID, got, shapes, pathVars, yamlVars, restVars>>

NextShapes ==
    \/ \E t \in Threads : GetUid(t)
    \/ \E t \in Threads : ShapeDefault(t)
    \/ \E i \in 1..Len(shapes) : WithMaterial(i)
    \/ \E i \in 1..Len(shapes) : WithTransform(i)
    \/ WorldColorOfRay

SpecShapes == InitShapes /\ [][NextShapes]_vars

\* every value get_uid returned: <<thread, position>>
Returned == {<<t, k>> : t \in Threads, k \in 1..MaxCalls + 1} \cap
            {c \in Threads \X (1..MaxCalls + 1) : c[2] <= Len(got[c[1]])}

\* C13: get_uid returns the prior value of the counter and adds exactly 1 to it
\* in one atomic step: in every interleaving the values returned are pairwise
\* distinct, the values returned to one thread are strictly increasing, and
\* the counter is the number of calls made.
GetUidDistinctAndIncreasing ==
    /\ [](/\ \A c, d \in Returned : c # d => got[c[1]][c[2]] # got[d[1]][d[2]]
          /\ \A t \in Threads : \A k \in 2..Len(got[t]) : got[t][k - 1] < got[t][k]
          /\ UID = Cardinality(Returned))
    /\ [][\A t \in Threads : got'[t] # got[t] =>
             /\ got'[t] = Append(got[t], UID)
             /\ UID' = UID + 1]_vars

\* both threads were returned values, each one's second after the other's first
GetUidInterleavedReached ==
    /\ Len(got[1]) = 2
    /\ Len(got[2]) = 2
    /\ got[1][1] < got[2][1]
    /\ got[2][1] < got[1][2]
    /\ got[1][2] < got[2][2]

\* the comparisons the code has for the shapes a and b
Equalities(a, b) ==
    {shape_eq(a, b)}
        \cup (IF a.kind = "sphere" /\ b.kind = "sphere" THEN {sphere_eq(a, b)} ELSE {})
        \cup (IF a.kind = "plane" /\ b.kind = "plane" THEN {plane_eq(a, b)} ELSE {})
        \cup (IF a.kind = "plane" THEN {eqx(a, b)} ELSE {})

\* C14: shape equality is identity equality: two shapes (spheres or planes)
\* compare equal if and only if they carry the same id, so two separately
\* constructed shapes with identical transform and material are never equal.
ShapeEqualityIsIdentity ==
    \A i, j \in 1..Len(shapes) :
        \A eq \in Equalities(shapes[i], shapes[j]) : eq <=> (shapes[i].id = shapes[j].id)

\* C15: a shape with a singular transform is rejected when the scene is built,
\* whatever the shape variant, and color_of_ray on a built world returns a
\* colour and never panics.
SingularTransformRejectedAtBuild ==
    /\ \A i \in 1..Len(shapes) : is_invertible(shapes[i].transform)
    /\ outcome # "color_of_ray panicked"

----------------------------------------------------------------------------
(* A write to a canvas that earlier writes left black or grey (canvas.rs) *)

\* Color::new(-0.5, ..), Color::new(0.04, ..), Color::new(0.5, ..), Color::new(1.5, ..)
PixelColors == {-50, 4, 50, 150}

InitCanvas ==
    /\ objects = <<>>
    /\ material = <<>>
    /\ NoTrace
    /\ ray = <<>>
    /\ xs = <<>>
    /\ h = None
    /\ comps = NoComps
    /\ before = None
    /\ pc = "idle"
    /\ NoShadow /\ NoUid /\ NoPath /\ NoYaml /\ NoRest
    /\ \E width \in 0..MaxSize, height \in 0..MaxSize :
          \E pixels \in [1..(width * height) -> {black, 50}] :
              canvas = [CanvasNew(width, height) EXCEPT !.pixels = pixels]
    /\ call = <<>>
    /\ camera = <<>>
    /\ picture = 0
    /\ tasks = <<>>
    /\ ppm = <<>>

\* c.write_to(x, y, color), also beyond the canvas
WriteTo ==
    /\ call = <<>>
    /\ \E x \in 0..MaxSize + 1, y \in 0..MaxSize + 1, color \in PixelColors :
          /\ canvas' = write_to(canvas, x, y, color)
          /\ call' = [x |-> x, y |-> y, color |-> color, canvas |-> canvas]
    /\ UNCHANGED <<coreVars, shadowVars, camera, picture, tasks, ppm, uidVars, pathVars, yamlVars, restVars>>

NextCanvas == WriteTo

SpecCanvas == InitCanvas /\ [][NextCanvas]_vars

\* C16: write_to(x, y, color) with x >= width or y >= height changes no pixel;
\* with x < width and y < height pixel_at(x, y) then returns color and every
\* other pixel is as before.
WriteToChangesOnlyItsPixel ==
    call # <<>> =>
        /\ canvas.width = call.canvas.width
        /\ canvas.height = call.canvas.height
        /\ Len(canvas.pixels) = canvas.width * canvas.height
        /\ IF call.x >= canvas.width \/ call.y >= canvas.height
           THEN canvas = call.canvas
           ELSE /\ pixel_at(canvas, call.x, call.y) = call.color
                /\ \A x \in 0..(canvas.width - 1), y \in 0..(canvas.height - 1) :
                      (x # call.x \/ y # call.y) =>
                          pixel_at(canvas, x, y) = pixel_at(call.canvas, x, y)

\* a write one column beyond the first row, whose index is that of the first
\* pixel of the second row, changed nothing there
WriteBeyondRowReached ==
    /\ call # <<>>
    /\ canvas.width = 2
    /\ canvas.height = 2
    /\ call.x = 2
    /\ call.y = 0
    /\ call.color = 150
    /\ pixel_at(canvas, 0, 1) = 50

----------------------------------------------------------------------------
(* Canvas::to_ppm (canvas.rs, color.rs).  A String is the sequence of its    *)
(* characters.                                                                *)

Digit == <<"0", "1", "2", "3", "4", "5", "6", "7", "8", "9">>

\* the Display of a usize, and of an f64 that is a whole number >= 0
RECURSIVE to_string(_)
to_string(n) ==
    IF n < 10 THEN <<Digit[n + 1]>>
    ELSE to_string(n \div 10) \o <<Digit[(n % 10) + 1]>>

\* a channel that is rounded down
channel_floor(v) ==
    LET x == v * 255
        clamped == IF x < 0 THEN 0 ELSE IF x > 255 * One THEN 255 * One ELSE x
    IN clamped \div One

\* (self.r() * 255.0).clamp(0.0, 255.0).ceil()
channel(v) ==
    LET x == v * 255
        clamped == IF x < 0 THEN 0 ELSE IF x > 255 * One THEN 255 * One ELSE x
    IN (clamped + One - 1) \div One

\* impl Display for Color: "{} {} {}"
color_to_string(v) ==
    to_string(channel(v)) \o <<" ">> \o to_string(channel(v)) \o <<" ">> \o to_string(channel(v))

\* str::split_whitespace, the word at hand being word
RECURSIVE split_whitespace_from(_, _, _)
split_whitespace_from(str, i, word) ==
    IF i > Len(str) THEN (IF word = <<>> THEN <<>> ELSE <<word>>)
    ELSE IF str[i] = " " \/ str[i] = "\n"
         THEN (IF word = <<>> THEN <<>> ELSE <<word>>) \o split_whitespace_from(str, i + 1, <<>>)
         ELSE split_whitespace_from(str, i + 1, Append(word, str[i]))

split_whitespace(str) == split_whitespace_from(str, 1, <<>>)

\* String::pop
pop(str) == IF str = <<>> THEN <<>> ELSE SubSeq(str, 1, Len(str) - 1)

\* a wrap one character late
exceeds_line_late(n, k) == n + k > 71

\* if n + k > 70
exceeds_line(n, k) == n + k > 70

\* to_ppm: the loop over the nums of a row, and the flush of the last tmp_str
RECURSIVE wrap_row(_, _, _, _, _)
wrap_row(nums, i, res, tmp_str, n) ==
    IF i > Len(nums) THEN Append(res, pop(tmp_str))
    ELSE LET num == nums[i]
             k == Len(num)
         IN IF exceeds_line(n, k)
            THEN wrap_row(nums, i + 1, Append(res, pop(tmp_str)), num \o <<" ">>, k + 1)
            ELSE wrap_row(nums, i + 1, res, tmp_str \o num \o <<" ">>, n + k + 1)

\* to_ppm: the nums of a row, the colours of the row one after the other
RECURSIVE row_nums(_, _)
row_nums(row, i) ==
    IF i > Len(row) THEN <<>>
    ELSE split_whitespace(color_to_string(row[i])) \o row_nums(row, i + 1)

\* self.pixels.chunks(self.width): for a width > 0, the rows
chunks(pixels, width) ==
    [r \in 1..((Len(pixels) + width - 1) \div width) |->
        SubSeq(pixels, (r - 1) * width + 1,
               IF r * width < Len(pixels) THEN r * width ELSE Len(pixels))]

\* to_ppm: the fold that pushes every line and a newline
RECURSIVE fold_lines(_, _)
fold_lines(lines, i) ==
    IF i > Len(lines) THEN <<>>
    ELSE lines[i] \o <<"\n">> \o fold_lines(lines, i + 1)

\* to_ppm: flat_map of the rows to their lines
RECURSIVE flat_map_rows(_, _)
flat_map_rows(rows, r) ==
    IF r > Len(rows) THEN <<>>
    ELSE wrap_row(row_nums(rows[r], 1), 1, <<>>, <<>>, 0) \o flat_map_rows(rows, r + 1)

\* format!("P3\n{} {}\n255\n", self.width, self.height)
ppm_header(width, height) ==
    <<"P", "3", "\n">> \o to_string(width) \o <<" ">> \o to_string(height)
        \o <<"\n", "2", "5", "5", "\n">>

\* Canvas::to_ppm; slice::chunks panics when the chunk size is 0
to_ppm(c) ==
    IF c.width = 0 THEN Panic
    ELSE Value(ppm_header(c.width, c.height)
                   \o fold_lines(flat_map_rows(chunks(c.pixels, c.width), 1), 1))

InitPpm ==
    /\ objects = <<>>
    /\ material = <<>>
    /\ NoTrace
    /\ ray = <<>>
    /\ xs = <<>>
    /\ h = None
    /\ comps = NoComps
    /\ before = None
    /\ pc = "idle"
    /\ NoShadow /\ NoUid /\ NoPath /\ NoYaml /\ NoRest
    \* every row holds the same colours, each row starting one pixel further in
    /\ \E width \in 0..MaxWidth, height \in 0..MaxHeight :
          \E row \in [1..width -> PixelColors \ {4}] :
              canvas = [width |-> width, height |-> height,
                        pixels |-> [i \in 1..(width * height) |->
                            row[((((i - 1) % width) + ((i - 1) \div width)) % width) + 1]]]
    /\ call = <<>>
    /\ camera = <<>>
    /\ picture = 0
    /\ tasks = <<>>
    /\ ppm = <<>>

\* c.to_ppm()
ToPpm ==
    /\ ppm = <<>>
    /\ ppm' = to_ppm(canvas)
    /\ UNCHANGED <<coreVars, shadowVars, canvas, call, camera, picture, tasks, uidVars, pathVars, yamlVars, restVars>>

NextPpm == ToPpm

SpecPpm == InitPpm /\ [][NextPpm]_vars

\* the pieces of a text between the occurrences of sep, from position i on
RECURSIVE PiecesFrom(_, _, _)
PiecesFrom(str, sep, i) ==
    IF i > Len(str) + 1 THEN <<>>
    ELSE LET j == CHOOSE j \in i..(Len(str) + 1) :
                      /\ j = Len(str) + 1 \/ str[j] = sep
                      /\ \A q \in i..(j - 1) : str[q] # sep
         IN <<SubSeq(str, i, j - 1)>> \o PiecesFrom(str, sep, j + 1)

Pieces(str, sep) == PiecesFrom(str, sep, 1)

\* str::lines: the lines of a text, each without its newline; what follows the
\* last newline is a line when it is not empty
LinesOf(str) ==
    LET pieces == Pieces(str, "\n")
    IN IF pieces[Len(pieces)] = <<>> THEN SubSeq(pieces, 1, Len(pieces) - 1) ELSE pieces

\* the words of a line: the runs of characters other than the space
WordsOf(line) == SelectSeq(Pieces(line, " "), LAMBDA word : word # <<>>)

\* the integer a word of digits stands for, -1 for any other word
RECURSIVE IntegerOf(_)
IntegerOf(word) ==
    IF word = <<>> \/ \E i \in 1..Len(word) : \A d \in 1..10 : Digit[d] # word[i] THEN -1
    ELSE LET last == CHOOSE d \in 0..9 : Digit[d + 1] = word[Len(word)]
         IN IF Len(word) = 1 THEN last ELSE 10 * IntegerOf(SubSeq(word, 1, Len(word) - 1)) + last

\* the integers of each line of a text
IntegersByLine(lines) ==
    [l \in 1..Len(lines) |->
        LET words == WordsOf(lines[l]) IN [i \in 1..Len(words) |-> IntegerOf(words[i])]]

\* the integers of the lines first..last, one line after the other
RECURSIVE IntegersOf(_, _, _)
IntegersOf(ints, first, last) ==
    IF first > last THEN <<>>
    ELSE ints[first] \o IntegersOf(ints, first + 1, last)

\* the r g b values of the pixels first..last of the canvas, as integers 0..255
RECURSIVE ValuesOf(_, _)
ValuesOf(first, last) ==
    IF first > last THEN <<>>
    ELSE LET v == canvas.pixels[first]
             c == IF v <= 0 THEN 0 ELSE IF v >= One THEN 255 ELSE (v * 255 + One - 1) \div One
         IN <<c, c, c>> \o ValuesOf(first + 1, last)

\* C17: in the body to_ppm produces, no line is longer than 70 characters,
\* every canvas row starts on a new line, and the integers of a row's lines read
\* in order are that row's r g b values pixel by pixel.
PpmBodyWrappedByRow ==
    (ppm # <<>> /\ ~ppm.panicked) =>
        LET lines == LinesOf(ppm.value)
            ints == IntegersByLine(lines)
            w == canvas.width
        IN /\ \A l \in 4..Len(lines) : Len(lines[l]) <= 70
           /\ IntegersOf(ints, 4, Len(lines)) = ValuesOf(1, Len(canvas.pixels))
           /\ \A r \in 1..canvas.height :
                 \E first, last \in 4..Len(lines) :
                     /\ IntegersOf(ints, 4, first - 1) = ValuesOf(1, (r - 1) * w)
                     /\ IntegersOf(ints, first, last) = ValuesOf((r - 1) * w + 1, r * w)

\* two rows of six pixels 255 255 255: each row takes a line of 17 numbers and
\* a line of one
PpmLongRowsWrappedReached ==
    /\ ppm # <<>>
    /\ ~ppm.panicked
    /\ canvas.width = 6
    /\ canvas.height = 2
    /\ \A i \in 1..12 : canvas.pixels[i] = 150
    /\ LET lines == LinesOf(ppm.value)
       IN /\ Len(lines) = 7
          /\ Len(lines[4]) = 67
          /\ Len(lines[5]) = 3
          /\ Len(lines[6]) = 67

\* C18: for every canvas Canvas::new can construct, width 0 and height 0
\* included, to_ppm returns a string that starts with the lines "P3",
\* "<width> <height>" and "255" and whose last character is a newline.
PpmHasHeaderAndEndsWithNewline ==
    ppm # <<>> =>
        /\ ~ppm.panicked
        /\ LET lines == LinesOf(ppm.value)
           IN /\ Len(lines) >= 3
              /\ lines[1] = <<"P", "3">>
              /\ IntegersByLine(lines)[2] = <<canvas.width, canvas.height>>
              /\ lines[3] = <<"2", "5", "5">>
        /\ ppm.value[Len(ppm.value)] = "\n"

----------------------------------------------------------------------------
(* pad_filepath (lib.rs).  A path is the sequence of its characters.         *)

\* the paths pad_filepath is called with: "foo.ppm", "foo/bar.ppm",
\* "/foo.ppm", "foo.tar.gz"
Paths ==
    { <<"f", "o", "o", ".", "p", "p", "m">>,
      <<"f", "o", "o", "/", "b", "a", "r", ".", "p", "p", "m">>,
      <<"/", "f", "o", "o", ".", "p", "p", "m">>,
      <<"f", "o", "o", ".", "t", "a", "r", ".", "g", "z">> }

\* the position of the last c in str, 0 when there is none
rfind(str, c) ==
    IF \E i \in 1..Len(str) : str[i] = c
    THEN CHOOSE i \in 1..Len(str) : str[i] = c /\ \A j \in (i + 1)..Len(str) : str[j] # c
    ELSE 0

\* Path::file_name of a path that does not end in a separator
file_name(str) == SubSeq(str, rfind(str, "/") + 1, Len(str))

\* Path::parent: what precedes the last component, the root for a component
\* directly under it
parent(str) ==
    LET slash == rfind(str, "/")
    IN IF file_name(str) = <<>> THEN None
       ELSE IF slash = 1 THEN Some(<<"/">>)
       ELSE Some(SubSeq(str, 1, slash - 1))

\* Path::file_stem: the file name up to its last dot, the whole name when it
\* has no dot or only a leading one
file_stem(str) ==
    LET name == file_name(str)
        dot == rfind(name, ".")
    IN IF name = <<>> THEN None
       ELSE IF dot <= 1 THEN Some(name)
       ELSE Some(SubSeq(name, 1, dot - 1))

\* Path::extension: what follows the last dot of the file name
extension(str) ==
    LET name == file_name(str)
        dot == rfind(name, ".")
    IN IF name = <<>> \/ dot <= 1 THEN None
       ELSE Some(SubSeq(name, dot + 1, Len(name)))

\* let mut par = match path.parent() { .. }; if par.len() > 0 { par.push('/') }
par_of(str) ==
    LET par == IF parent(str) = None THEN <<>> ELSE parent(str)[1]
    IN IF Len(par) > 0 THEN Append(par, "/") ELSE par

\* format!("{}{} ({}).{}", par, stem, x, ext)
format_padded(par, stem, x, ext) ==
    par \o stem \o <<" ", "(">> \o to_string(x) \o <<")", ".">> \o ext

\* a counter that skips every other number
next_x_skipping(x) == x + 2

\* x += 1
next_x(x) == x + 1

\* the candidates of a path that the closure may report as existing
Candidates(str) ==
    {str} \cup {format_padded(par_of(str), file_stem(str)[1], n, extension(str)[1]) :
                    n \in 1..MaxPadding}

InitPath ==
    /\ objects = <<>>
    /\ material = <<>>
    /\ NoTrace
    /\ ray = <<>>
    /\ xs = <<>>
    /\ h = None
    /\ comps = NoComps
    /\ before = None
    /\ pc = "idle"
    /\ NoShadow /\ NoCanvas /\ NoUid /\ NoYaml /\ NoRest
    /\ \E str \in Paths : \E existing \in SUBSET (Candidates(str) \cup Paths) :
          path = [pc |-> "call", s |-> str, exists |-> existing,
                  par |-> <<>>, stem |-> <<>>, ext |-> <<>>, x |-> 0, res |-> <<>>]

\* pad_filepath up to the loop: par, stem, ext, x = 1, res = s
PadFilepath ==
    /\ path.pc = "call"
    /\ path' = [path EXCEPT !.pc = "while",
                            !.par = par_of(path.s),
                            !.stem = file_stem(path.s)[1],
                            !.ext = extension(path.s)[1],
                            !.x = 1,
                            !.res = path.s]
    /\ UNCHANGED <<coreVars, shadowVars, canvasVars, uidVars, yamlVars, restVars>>

\* while exists_fn(&res) { res = format!(..); x += 1; }
PadLoop ==
    /\ path.pc = "while"
    /\ path.res \in path.exists
    /\ path' = [path EXCEPT !.res = format_padded(path.par, path.stem, path.x, path.ext),
                            !.x = next_x(path.x)]
    /\ UNCHANGED <<coreVars, shadowVars, canvasVars, uidVars, yamlVars, restVars>>

\* the loop ends and res is returned
PadReturn ==
    /\ path.pc = "while"
    /\ path.res \notin path.exists
    /\ path' = [path EXCEPT !.pc = "returned"]
    /\ UNCHANGED <<coreVars, shadowVars, canvasVars, uidVars, yamlVars, restVars>>

NextPath == PadFilepath \/ PadLoop \/ PadReturn

SpecPath == InitPath /\ [][NextPath]_vars

\* "<parent>/<stem> (n).<ext>", the parent and its slash left out when the
\* path has no directory part
Padded(str, n) ==
    LET dir == parent(str)[1]
    IN (IF dir = <<>> THEN <<>> ELSE dir \o <<"/">>)
           \o file_stem(str)[1] \o <<" ", "(">> \o to_string(n) \o <<")", ".">> \o extension(str)[1]

\* the steps pad_filepath still has to take: one to enter the loop, one per
\* existing path not yet tried, one to return
PadRemaining(p) ==
    IF p.pc = "returned" THEN 0
    ELSE IF p.pc = "call" THEN Cardinality(p.exists) + 3
    ELSE Cardinality(p.exists) + 2 - p.x

\* C19: pad_filepath terminates (every step lowers a natural number, and a
\* step is possible until it has returned) and returns a path that does not
\* exist: s when s does not exist, else "<parent>/<stem> (n).<ext>" for the
\* smallest n >= 1 for which that path does not exist.
PadFilepathReturnsFirstFree ==
    /\ [](/\ PadRemaining(path) >= 0
          /\ path.pc # "returned" => ENABLED NextPath
          /\ path.pc = "returned" =>
                /\ path.res \notin path.exists
                /\ IF path.s \notin path.exists THEN path.res = path.s
                   ELSE \E n \in 1..(Cardinality(path.exists) + 1) :
                            /\ path.res = Padded(path.s, n)
                            /\ \A m \in 1..(n - 1) : Padded(path.s, m) \in path.exists)
    /\ [][PadRemaining(path') < PadRemaining(path)]_vars

\* "foo.ppm", "foo (1).ppm" and "foo (2).ppm" exist, "foo (3).ppm" is returned
PadFilepathThirdReached ==
    /\ path.pc = "returned"
    /\ path.s = <<"f", "o", "o", ".", "p", "p", "m">>
    /\ path.x = 4
    /\ path.res = <<"f", "o", "o", " ", "(", "3", ")", ".", "p", "p", "m">>
    /\ Cardinality(path.exists) = 4

----------------------------------------------------------------------------
(* Material definitions and their resolution (yaml.rs).  A colour is one     *)
(* number, as everywhere.                                                     *)

NameList == <<"white", "blue", "glass", "metal", "wood">>

MaterialNames == {NameList[i] : i \in 1..MaxMaterials}

FieldList ==
    <<"color", "diffuse", "ambient", "specular", "shininess", "reflective",
      "refractive_index", "transparency">>

Fields == {FieldList[i] : i \in 1..Len(FieldList)}

\* the value the definition of a material gives for a field, a different one
\* for every material and field
Given(name, field) ==
    LET i == CHOOSE i \in 1..Len(NameList) : NameList[i] = name
        j == CHOOSE j \in 1..Len(FieldList) : FieldList[j] = field
    IN 10 * i + j

\* the sets of fields an extending definition may give
Overrides == { {}, {"color", "diffuse", "ambient", "specular"} }

\* MaterialRepr::Complete { .. }
Complete(name) ==
    [kind |-> "Complete",
     color |-> Given(name, "color"), diffuse |-> Given(name, "diffuse"),
     ambient |-> Given(name, "ambient"), specular |-> Given(name, "specular"),
     shininess |-> Given(name, "shininess"), reflective |-> Given(name, "reflective"),
     refractive_index |-> Given(name, "refractive_index"),
     transparency |-> Given(name, "transparency")]

\* MaterialRepr::Extends { extends, .. } giving the fields of given
Extends(name, extends, given) ==
    LET opt(field) == IF field \in given THEN Some(Given(name, field)) ELSE None
    IN [kind |-> "Extends", extends |-> extends,
        color |-> opt("color"), diffuse |-> opt("diffuse"),
        ambient |-> opt("ambient"), specular |-> opt("specular"),
        shininess |-> opt("shininess"), reflective |-> opt("reflective"),
        refractive_index |-> opt("refractive_index"),
        transparency |-> opt("transparency")]

\* HashMap::insert
map_insert(map, key, value) ==
    [k \in DOMAIN map \cup {key} |-> IF k = key THEN value ELSE map[k]]

\* the parent's value whatever the definition gives
unwrap_or_default(opt, default) == default

\* Option::unwrap_or
unwrap_or(opt, default) == IF opt = None THEN default ELSE opt[1]

\* complete_material: the map and the seen set it leaves, and what it returns
RECURSIVE complete_material(_, _, _)
complete_material(key, map, seen) ==
    IF key \in seen
    THEN [map |-> map, seen |-> seen, result |-> Err("RecursiveDefinition")]
    ELSE LET marked == seen \cup {key}
         IN IF key \notin DOMAIN map
            THEN [map |-> map, seen |-> marked, result |-> Err("UnknownMaterial")]
            ELSE LET got_repr == map[key]
                 IN IF got_repr.kind = "Complete"
                    THEN [map |-> map, seen |-> marked, result |-> Ok(<<>>)]
                    ELSE LET inner == complete_material(got_repr.extends, map, marked)
                         IN IF ~inner.result.ok THEN inner
                            ELSE IF got_repr.extends \notin DOMAIN inner.map
                            THEN [inner EXCEPT !.result = Err("KeyNotExists")]
                            ELSE LET ext == inner.map[got_repr.extends]
                                 IN IF ext.kind = "Extends"
                                    THEN [inner EXCEPT !.result = Err("panic: material should be complete")]
                                    ELSE LET res ==
                                                 [kind |-> "Complete",
                                                  color |-> unwrap_or(got_repr.color, ext.color),
                                                  diffuse |-> unwrap_or(got_repr.diffuse, ext.diffuse),
                                                  ambient |-> unwrap_or(got_repr.ambient, ext.ambient),
                                                  specular |-> unwrap_or(got_repr.specular, ext.specular),
                                                  shininess |-> unwrap_or(got_repr.shininess, ext.shininess),
                                                  reflective |-> unwrap_or(got_repr.reflective, ext.reflective),
                                                  transparency |-> unwrap_or(got_repr.transparency, ext.transparency),
                                                  refractive_index |->
                                                      unwrap_or(got_repr.refractive_index, ext.refractive_index)]
                                         IN [map |-> map_insert(inner.map, key, res),
                                             seen |-> inner.seen,
                                             result |-> Ok(<<>>)]

\* impl TryFrom<MaterialRepr> for Material
material_try_from(value) ==
    IF value.kind = "Extends" THEN Err("Unsupported")
    ELSE Ok([DefaultMaterial EXCEPT !.color = value.color,
                                    !.diffuse = value.diffuse,
                                    !.ambient = value.ambient,
                                    !.specular = value.specular,
                                    !.reflective = value.reflective,
                                    !.shininess = value.shininess,
                                    !.transparency = value.transparency,
                                    !.refractive_index = value.refractive_index])

\* a definition as written in the yaml text: its extends key, if any, and the
\* fields it gives
YamlMaterials ==
    {[extends |-> None, given |-> given] : given \in {{}, Fields}} \cup
        {[extends |-> Some(extends), given |-> given] :
            extends \in MaterialNames, given \in Overrides \cup {Fields}}

\* #[serde(untagged)] enum MaterialRepr: the first variant the definition
\* matches, Complete before Extends; a struct variant matches when its required
\* fields are there and ignores every other key
material_repr_from(name, yaml) ==
    IF yaml.given = Fields THEN Ok(Complete(name))
    ELSE IF yaml.extends # None THEN Ok(Extends(name, yaml.extends[1], yaml.given))
    ELSE Err("SerdeError")

InitYaml ==
    /\ objects = <<>>
    /\ material = <<>>
    /\ NoTrace
    /\ ray = <<>>
    /\ xs = <<>>
    /\ h = None
    /\ comps = NoComps
    /\ before = None
    /\ pc = "idle"
    /\ NoShadow /\ NoCanvas /\ NoUid /\ NoPath /\ NoRest
    /\ \E names \in SUBSET MaterialNames :
          \E defs \in [names -> YamlMaterials] :
              reprs = [defs |-> defs, map |-> <<>>, keys |-> {}, order |-> <<>>,
                       at |-> "yaml", result |-> None]

\* serde_yaml::from_str::<MaterialReprs>, and let keys = v.0.keys().cloned().collect()
DeserializeMaterials ==
    /\ reprs # <<>>
    /\ reprs.at = "yaml"
    /\ IF \E name \in DOMAIN reprs.defs : ~material_repr_from(name, reprs.defs[name]).ok
       THEN reprs' = [reprs EXCEPT !.at = "returned", !.result = Some(Err("SerdeError"))]
       ELSE reprs' = [reprs EXCEPT !.at = "try_from",
                                   !.map = [name \in DOMAIN reprs.defs |->
                                               material_repr_from(name, reprs.defs[name]).value],
                                   !.keys = DOMAIN reprs.defs]
    /\ UNCHANGED <<coreVars, shadowVars, canvasVars, uidVars, pathVars, restVars>>

\* for key in keys { complete_material(&key, &mut v.0, &mut HashSet::new())?; }
CompleteMaterial ==
    /\ reprs # <<>>
    /\ reprs.at = "try_from"
    /\ \E key \in reprs.keys :
          LET done == complete_material(key, reprs.map, {})
          IN reprs' = [reprs EXCEPT !.map = done.map,
                                    !.keys = @ \ {key},
                                    !.order = Append(@, key),
                                    !.at = IF done.result.ok THEN "try_from" ELSE "returned",
                                    !.result = IF done.result.ok THEN None
                                               ELSE Some(done.result)]
    /\ UNCHANGED <<coreVars, shadowVars, canvasVars, uidVars, pathVars, restVars>>

\* for (name, mat) in v.0 { res.insert(name, mat.try_into()?); } Ok(Materials(res))
IntoMaterials ==
    /\ reprs # <<>>
    /\ reprs.at = "try_from"
    /\ reprs.keys = {}
    /\ reprs' = [reprs EXCEPT !.at = "returned",
                              !.result =
                    IF \E name \in DOMAIN reprs.map : ~material_try_from(reprs.map[name]).ok
                    THEN Some(Err("Unsupported"))
                    ELSE Some(Ok([name \in DOMAIN reprs.map |->
                                     material_try_from(reprs.map[name]).value]))]
    /\ UNCHANGED <<coreVars, shadowVars, canvasVars, uidVars, pathVars, restVars>>

NextYaml == DeserializeMaterials \/ CompleteMaterial \/ IntoMaterials

SpecYaml == InitYaml /\ [][NextYaml]_vars

\* the extends chain of name ends, within fuel steps, in a definition that
\* extends nothing and gives every field: every name on it is defined and none
\* comes twice
RECURSIVE ChainEnds(_, _, _)
ChainEnds(defs, name, fuel) ==
    /\ name \in DOMAIN defs
    /\ IF defs[name].extends = None THEN defs[name].given = Fields
       ELSE /\ fuel > 0
            /\ ChainEnds(defs, defs[name].extends[1], fuel - 1)

\* acyclic definitions in which every extends name is defined
WellFounded(defs) ==
    \A name \in DOMAIN defs : ChainEnds(defs, name, Cardinality(DOMAIN defs))

\* the value of the nearest definition on the extends chain of name, name
\* itself first, that gives the field
RECURSIVE Nearest(_, _, _)
Nearest(defs, name, field) ==
    IF field \in defs[name].given THEN Given(name, field)
    ELSE Nearest(defs, defs[name].extends[1], field)

RECURSIVE ChainLoops(_, _, _)
ChainLoops(defs, name, fuel) ==
    /\ name \in DOMAIN defs
    /\ defs[name].extends # None
    /\ fuel = 0 \/ ChainLoops(defs, defs[name].extends[1], fuel - 1)

\* the extends references contain a cycle: some chain never ends
Cyclic(defs) ==
    \E name \in DOMAIN defs : ChainLoops(defs, name, Cardinality(DOMAIN defs))

\* C21: when the extends references of the definitions contain a cycle,
\* loading returns the RecursiveDefinition error and nothing else.
CyclicMaterialsFailRecursiveDefinition ==
    (reprs # <<>> /\ Cyclic(reprs.defs) /\ reprs.at = "returned") =>
        reprs.result[1] = Err("RecursiveDefinition")

----------------------------------------------------------------------------
(* Named transforms and their resolution (yaml.rs).  A Tr is the sequence of *)
(* the steps it applies, first to last; Tr::new() is the empty sequence and  *)
(* x.and(y) applies x, then y.                                               *)

\* the names under `transforms`, and a name that is referenced only
TransformNames == {"standard", "large", "huge"}

RefNames == TransformNames \cup {"missing"}

\* TransformRepr::Ref
Ref(name) == [kind |-> "Ref", name |-> name]

\* TransformRepr::OneParam
OneParam(name, v) == [kind |-> "OneParam", name |-> name, x |-> v]

\* TransformRepr::ThreeParam, its three numbers as one
ThreeParam(name, x) == [kind |-> "ThreeParam", name |-> name, x |-> x]

\* Tr::new()
TrNew == <<>>

\* x.and(y)
and(x, y) == x \o y

\* impl TryFrom<TransformRepr> for Tr
tr_try_from(value) ==
    IF value.kind = "Ref" THEN Err("Unsupported")
    ELSE IF value.kind = "OneParam"
    THEN (IF value.name \in {"rotate_x", "rotate_y", "rotate_z"} THEN Ok(and(TrNew, <<value>>))
          ELSE Err("UnknownTransformation"))
    ELSE IF value.kind = "ThreeParam"
    THEN (IF value.name \in {"translate", "scale"} THEN Ok(and(TrNew, <<value>>))
          ELSE Err("UnknownTransformation"))
    ELSE (IF value.name = "shear" THEN Ok(and(TrNew, <<value>>))
          ELSE Err("UnknownTransformation"))

\* HashMap::remove
map_remove(map, key) == [k \in DOMAIN map \ {key} |-> map[k]]

\* a seen set that is never consulted
seen_contains_never(seen, key) == FALSE

\* seen.contains(key)
seen_contains(seen, key) == key \in seen

\* complete_transform, and its loop `for tr in trs` from the i-th step on: the
\* map and the seen set they leave, what they return, and how many calls of
\* complete_transform were made
RECURSIVE complete_transform(_, _, _)
RECURSIVE for_tr_in_trs(_, _, _, _, _)
complete_transform(key, map, seen) ==
    IF seen_contains(seen, key)
    THEN [map |-> map, seen |-> seen, result |-> Err("RecursiveDefinition"), calls |-> 1]
    ELSE LET marked == seen \cup {key}
         IN IF key \notin DOMAIN map
            THEN [map |-> map, seen |-> marked, result |-> Err("KeyNotExists"), calls |-> 1]
            ELSE LET loop == for_tr_in_trs(map[key], 1, <<>>, map_remove(map, key), marked)
                 IN IF ~loop.result.ok
                    THEN [map |-> loop.map, seen |-> loop.seen, result |-> loop.result,
                          calls |-> loop.calls + 1]
                    ELSE [map |-> map_insert(loop.map, key, loop.new_trs), seen |-> loop.seen,
                          result |-> Ok(<<>>), calls |-> loop.calls + 1]

for_tr_in_trs(steps, i, new_trs, map, seen) ==
    IF i > Len(steps)
    THEN [map |-> map, seen |-> seen, result |-> Ok(<<>>), new_trs |-> new_trs, calls |-> 0]
    ELSE IF steps[i].kind = "Ref"
    THEN LET inner == complete_transform(steps[i].name, map, seen)
         IN IF ~inner.result.ok
            THEN [map |-> inner.map, seen |-> inner.seen, result |-> inner.result,
                  new_trs |-> new_trs, calls |-> inner.calls]
            ELSE IF steps[i].name \notin DOMAIN inner.map
            THEN [map |-> inner.map, seen |-> inner.seen,
                  result |-> Err("panic: transform should exist"),
                  new_trs |-> new_trs, calls |-> inner.calls]
            ELSE LET rest == for_tr_in_trs(steps, i + 1, new_trs \o inner.map[steps[i].name],
                                           inner.map, inner.seen)
                 IN [rest EXCEPT !.calls = @ + inner.calls]
    ELSE for_tr_in_trs(steps, i + 1, Append(new_trs, steps[i]), map, seen)

\* trs.into_iter().map(|tr| Tr::try_from(tr).unwrap()).fold(Tr::new(), |x, y| x.and(y))
RECURSIVE fold_and(_, _)
fold_and(steps, i) ==
    IF i = 0 THEN TrNew
    ELSE and(fold_and(steps, i - 1), tr_try_from(steps[i]).value)

\* generate_objects: the loop over the transform list of an object, from the
\* i-th step on
RECURSIVE object_transform(_, _, _, _)
object_transform(steps, i, named, transform) ==
    IF i > Len(steps) THEN Ok(transform)
    ELSE IF steps[i].kind = "Ref"
    THEN (IF steps[i].name \notin DOMAIN named THEN Err("UnknownTransformation")
          ELSE object_transform(steps, i + 1, named, and(transform, named[steps[i].name])))
    ELSE IF ~tr_try_from(steps[i]).ok THEN tr_try_from(steps[i])
    ELSE object_transform(steps, i + 1, named, and(transform, tr_try_from(steps[i]).value))

\* the transform lists of the objects
ObjectTransforms ==
    { <<Ref("large")>>,
      <<OneParam("rotate_x", 1), ThreeParam("translate", 2)>>,
      <<ThreeParam("translate", 1), ThreeParam("skew", 2)>>,
      <<OneParam("rotate_w", 1)>> }

InitTransforms ==
    /\ objects = <<>>
    /\ material = <<>>
    /\ NoTrace
    /\ ray = <<>>
    /\ xs = <<>>
    /\ h = None
    /\ comps = NoComps
    /\ before = None
    /\ pc = "idle"
    /\ NoShadow /\ NoCanvas /\ NoUid /\ NoPath /\ NoYaml
    /\ tr = <<>>
    /\ fmt = <<>>
    \* the steps of standard, large and huge, one list after the other
    /\ \E n \in 0..MaxSteps :
          \E flat \in [1..n -> RefNames \cup {"translate", "skew"}], cut1, cut2 \in 0..n :
              /\ cut1 <= cut2
              /\ LET step(i) == IF flat[i] \in RefNames THEN Ref(flat[i])
                                ELSE ThreeParam(flat[i], i)
                     defs == [name \in TransformNames |->
                                 IF name = "standard" THEN [i \in 1..cut1 |-> step(i)]
                                 ELSE IF name = "large"
                                 THEN [i \in 1..(cut2 - cut1) |-> step(cut1 + i)]
                                 ELSE [i \in 1..(n - cut2) |-> step(cut2 + i)]]
                 IN trs = [defs |-> defs, map |-> defs, keys |-> TransformNames,
                           order |-> <<>>, calls |-> 0, at |-> "try_from", result |-> None,
                           object |-> None]

\* for key in keys { complete_transform(&key, &mut v.0, &mut HashSet::new())?; }
CompleteTransform ==
    /\ trs # <<>>
    /\ trs.at = "try_from"
    /\ \E key \in trs.keys :
          LET done == complete_transform(key, trs.map, {})
          IN trs' = [trs EXCEPT !.map = done.map,
                                !.keys = @ \ {key},
                                !.order = Append(@, key),
                                !.calls = done.calls,
                                !.at = IF done.result.ok THEN "try_from"
                                       ELSE IF done.result = Err("panic: transform should exist")
                                       THEN "panicked"
                                       ELSE "returned",
                                !.result = IF done.result.ok THEN None ELSE Some(done.result)]
    /\ UNCHANGED <<coreVars, shadowVars, canvasVars, uidVars, pathVars, yamlVars, tr, fmt>>

\* for (name, trs) in v.0 { res.insert(name, ..unwrap()..fold..); } Ok(Transforms(res))
IntoTransforms ==
    /\ trs # <<>>
    /\ trs.at = "try_from"
    /\ trs.keys = {}
    /\ IF \E name \in DOMAIN trs.map : \E i \in 1..Len(trs.map[name]) :
              ~tr_try_from(trs.map[name][i]).ok
       THEN trs' = [trs EXCEPT !.at = "panicked"]
       ELSE trs' = [trs EXCEPT !.at = "returned",
                               !.result = Some(Ok([name \in DOMAIN trs.map |->
                                              fold_and(trs.map[name], Len(trs.map[name]))]))]
    /\ UNCHANGED <<coreVars, shadowVars, canvasVars, uidVars, pathVars, yamlVars, tr, fmt>>

\* generate_objects: the transform of one object
GenerateObjects ==
    /\ trs # <<>>
    /\ trs.at = "returned"
    /\ trs.result[1].ok
    /\ trs.object = None
    /\ \E steps \in ObjectTransforms :
          trs' = [trs EXCEPT !.object =
                     Some([transform |-> steps,
                           result |-> object_transform(steps, 1, trs.result[1].value, TrNew)])]
    /\ UNCHANGED <<coreVars, shadowVars, canvasVars, uidVars, pathVars, yamlVars, tr, fmt>>

NextTransforms == CompleteTransform \/ IntoTransforms \/ GenerateObjects

SpecTransforms == InitTransforms /\ [][NextTransforms]_vars

\* the names a definition references
RefsOf(defs, name) ==
    {defs[name][i].name : i \in {j \in 1..Len(defs[name]) : defs[name][j].kind = "Ref"}}

\* the names reached from a set of names by following references fuel times
RECURSIVE ReachFrom(_, _, _)
ReachFrom(defs, names, fuel) ==
    IF fuel = 0 THEN names
    ELSE ReachFrom(defs, names \cup UNION {RefsOf(defs, n) : n \in names \cap DOMAIN defs},
                   fuel - 1)

\* the name references contain a cycle: some name reaches itself
CyclicTransforms(defs) ==
    \E name \in DOMAIN defs :
        name \in ReachFrom(defs, RefsOf(defs, name), Cardinality(DOMAIN defs))

\* every referenced name is defined
AllDefined(defs) == \A name \in DOMAIN defs : RefsOf(defs, name) \subseteq DOMAIN defs

\* every step that is not a reference has a tag the loader knows
KnownTags(steps) ==
    \A i \in 1..Len(steps) : steps[i].kind = "Ref" \/ tr_try_from(steps[i]).ok

\* try_from has returned or panicked
LoadEnded == trs # <<>> /\ trs.at \in {"returned", "panicked"}

\* C22 as stated: when the name references of the named transforms contain a
\* cycle, loading returns the RecursiveDefinition error.
CyclicTransformsFailRecursiveDefinition ==
    (LoadEnded /\ CyclicTransforms(trs.defs)) =>
        /\ trs.at = "returned"
        /\ trs.result[1] = Err("RecursiveDefinition")

\* C22, amended: when the name references contain a cycle, loading ends
\* without a panic and with an error, RecursiveDefinition or, when an undefined
\* name is referenced as well, possibly KeyNotExists; and a call of
\* complete_transform from the loop never leads to more calls than there are
\* names, plus one.
CyclicTransformsFail ==
    /\ trs # <<>> => trs.calls <= Cardinality(RefNames) + 1
    /\ (LoadEnded /\ CyclicTransforms(trs.defs)) =>
          /\ trs.at = "returned"
          /\ trs.result[1] \in {Err("RecursiveDefinition"), Err("KeyNotExists")}
          /\ AllDefined(trs.defs) => trs.result[1] = Err("RecursiveDefinition")

\* huge references standard, standard and large reference each other; huge is
\* completed first and the fourth call finds standard seen
CycleReachedFromOutsideReached ==
    /\ LoadEnded
    /\ trs.defs["huge"] = <<Ref("standard")>>
    /\ trs.defs["standard"] = <<Ref("large")>>
    /\ trs.defs["large"] = <<Ref("standard")>>
    /\ trs.order = <<"huge">>
    /\ trs.calls = 4
    /\ trs.result[1] = Err("RecursiveDefinition")

\* the steps of a definition with every reference replaced, where it stands,
\* by the steps of the referenced definition, resolved the same way
RECURSIVE Inlined(_, _, _)
Inlined(defs, steps, i) ==
    IF i > Len(steps) THEN <<>>
    ELSE (IF steps[i].kind = "Ref" THEN Inlined(defs, defs[steps[i].name], 1)
          ELSE <<steps[i]>>) \o Inlined(defs, steps, i + 1)

\* C23: for acyclic named transforms whose references are all defined, a name
\* referenced twice and a shared dependency included, resolution succeeds and
\* every name resolves to its own steps with each reference replaced in place
\* by the resolved steps of the referenced transform.
TransformsInlineReferences ==
    (/\ LoadEnded
     /\ ~CyclicTransforms(trs.defs)
     /\ AllDefined(trs.defs)
     /\ \A name \in DOMAIN trs.defs : KnownTags(trs.defs[name])) =>
        /\ trs.at = "returned"
        /\ trs.result[1].ok
        /\ \A name \in DOMAIN trs.defs :
              trs.result[1].value[name] = Inlined(trs.defs, trs.defs[name], 1)

\* C24: a step with an unknown tag makes the loader return the
\* UnknownTransformation error, without a panic, in a named transform (here
\* among definitions that resolve) as well as in the transform list of an object.
UnknownTagReturnsUnknownTransformation ==
    /\ (/\ LoadEnded
        /\ \A name \in DOMAIN trs.defs : RefsOf(trs.defs, name) = {}
        /\ \E name \in DOMAIN trs.defs : ~KnownTags(trs.defs[name])) =>
           /\ trs.at = "returned"
           /\ trs.result[1] = Err("UnknownTransformation")
    /\ (trs # <<>> /\ trs.object # None /\ ~KnownTags(trs.object[1].transform)) =>
           trs.object[1].result = Err("UnknownTransformation")

----------------------------------------------------------------------------
(* Matrices and the transform builders (matrix.rs, transform.rs,             *)
(* transformation.rs).  A matrix is the tuple of its rows, its entries are   *)
(* fixed-point reals; an angle is a number of quarter turns.                 *)

\* f64::cos and f64::sin of rad quarter turns
cos(rad) == <<One, 0, -One, 0>>[(rad % 4) + 1]

sin(rad) == <<0, One, 0, -One>>[(rad % 4) + 1]

\* Matrix::<4, 4>::ident()
ident4 == <<<<One, 0, 0, 0>>, <<0, One, 0, 0>>, <<0, 0, One, 0>>, <<0, 0, 0, One>>>>

translation(x, y, z) ==
    <<<<One, 0, 0, x>>, <<0, One, 0, y>>, <<0, 0, One, z>>, <<0, 0, 0, One>>>>

scaling(x, y, z) ==
    <<<<x, 0, 0, 0>>, <<0, y, 0, 0>>, <<0, 0, z, 0>>, <<0, 0, 0, One>>>>

rotation_x(rad) ==
    <<<<One, 0, 0, 0>>, <<0, cos(rad), -sin(rad), 0>>, <<0, sin(rad), cos(rad), 0>>,
      <<0, 0, 0, One>>>>

rotation_y(rad) ==
    <<<<cos(rad), 0, sin(rad), 0>>, <<0, One, 0, 0>>, <<-sin(rad), 0, cos(rad), 0>>,
      <<0, 0, 0, One>>>>

rotation_z(rad) ==
    <<<<cos(rad), -sin(rad), 0, 0>>, <<sin(rad), cos(rad), 0, 0>>, <<0, 0, One, 0>>,
      <<0, 0, 0, One>>>>

shearing(xy, xz, yx, yz, zx, zy) ==
    <<<<One, xy, xz, 0>>, <<yx, One, yz, 0>>, <<zx, zy, One, 0>>, <<0, 0, 0, One>>>>

\* Matrix::mult, for square matrices
mult(a, b) ==
    [i \in 1..Len(a) |-> [j \in 1..Len(a) |->
        LET v[k \in 0..Len(a)] == IF k = 0 THEN 0 ELSE v[k - 1] + Mul(a[i][k], b[k][j])
        IN v[Len(a)]]]

\* Matrix::<4, 4>::mult_tuple
mult_tuple(m, t) ==
    [i \in 1..4 |-> Mul(m[i][1], t[1]) + Mul(m[i][2], t[2]) + Mul(m[i][3], t[3])
                        + Mul(m[i][4], t[4])]

\* the calls a chain may make: translate(10, 5, 7), scale(5, 5, 5), a quarter
\* turn about each axis, shear(1, 0, 0, 0, 0, 0)
BuilderCalls ==
    { [name |-> "translate", args |-> <<10 * One, 5 * One, 7 * One>>],
      [name |-> "scale", args |-> <<5 * One, 5 * One, 5 * One>>],
      [name |-> "rotate_x", args |-> <<1>>],
      [name |-> "rotate_y", args |-> <<1>>],
      [name |-> "rotate_z", args |-> <<1>>],
      [name |-> "shear", args |-> <<One, 0, 0, 0, 0, 0>>] }

\* Tr::translate .. Tr::shear
Tr_call(self, c) ==
    LET a == c.args
    IN IF c.name = "translate" THEN mult(translation(a[1], a[2], a[3]), self)
       ELSE IF c.name = "scale" THEN mult(scaling(a[1], a[2], a[3]), self)
       ELSE IF c.name = "rotate_x" THEN mult(rotation_x(a[1]), self)
       ELSE IF c.name = "rotate_y" THEN mult(rotation_y(a[1]), self)
       ELSE IF c.name = "rotate_z" THEN mult(rotation_z(a[1]), self)
       ELSE mult(shearing(a[1], a[2], a[3], a[4], a[5], a[6]), self)

\* Transformation::translate .. Transformation::shear
Transformation_call(self, c) ==
    LET a == c.args
    IN IF c.name = "translate" THEN mult(translation(a[1], a[2], a[3]), self)
       ELSE IF c.name = "scale" THEN mult(scaling(a[1], a[2], a[3]), self)
       ELSE IF c.name = "rotate_x" THEN mult(rotation_x(a[1]), self)
       ELSE IF c.name = "rotate_y" THEN mult(rotation_y(a[1]), self)
       ELSE IF c.name = "rotate_z" THEN mult(rotation_y(a[1]), self)
       ELSE mult(shearing(a[1], a[2], a[3], a[4], a[5], a[6]), self)

InitBuilder ==
    /\ objects = <<>>
    /\ material = <<>>
    /\ NoTrace
    /\ ray = <<>>
    /\ xs = <<>>
    /\ h = None
    /\ comps = NoComps
    /\ before = None
    /\ pc = "idle"
    /\ NoShadow /\ NoCanvas /\ NoUid /\ NoPath /\ NoYaml
    /\ trs = <<>>
    /\ fmt = <<>>
    \* Tr::default() or Transformation::default()
    /\ \E builder \in {"Tr", "Transformation"} :
          tr = [builder |-> builder, calls |-> <<>>, matrix |-> ident4]

\* one more call on the builder
BuilderCall ==
    /\ tr # <<>>
    /\ Len(tr.calls) < MaxChain
    /\ \E c \in BuilderCalls :
          tr' = [tr EXCEPT !.calls = Append(@, c),
                           !.matrix = IF tr.builder = "Tr" THEN Tr_call(@, c)
                                      ELSE Transformation_call(@, c)]
    /\ UNCHANGED <<coreVars, shadowVars, canvasVars, uidVars, pathVars, yamlVars, trs, fmt>>

NextBuilder == BuilderCall

SpecBuilder == InitBuilder /\ [][NextBuilder]_vars

\* the matrix of the operation a call names
OwnMatrix(c) ==
    LET a == c.args
    IN CASE c.name = "translate" -> translation(a[1], a[2], a[3])
         [] c.name = "scale" -> scaling(a[1], a[2], a[3])
         [] c.name = "rotate_x" -> rotation_x(a[1])
         [] c.name = "rotate_y" -> rotation_y(a[1])
         [] c.name = "rotate_z" -> rotation_z(a[1])
         [] c.name = "shear" -> shearing(a[1], a[2], a[3], a[4], a[5], a[6])

\* a point after the operations of the calls i.. have been applied to it one
\* after another
RECURSIVE AppliedInOrder(_, _, _)
AppliedInOrder(calls, i, point4) ==
    IF i > Len(calls) THEN point4
    ELSE AppliedInOrder(calls, i + 1, mult_tuple(OwnMatrix(calls[i]), point4))

\* the points (1, 0, 1), (1, 0, 0), (0, 1, 0) and (2, 3, 4)
TestPoints ==
    { <<One, 0, One, One>>, <<One, 0, 0, One>>, <<0, One, 0, One>>,
      <<2 * One, 3 * One, 4 * One, One>> }

\* C27: every builder call, in Tr and in Transformation, gives the matrix of
\* its own operation multiplied from the left onto the previous matrix, and the
\* matrix of a chain takes a point where the operations take it one after
\* another in call order.
BuilderComposesInCallOrder ==
    /\ [](tr # <<>> =>
             \A point4 \in TestPoints :
                 mult_tuple(tr.matrix, point4) = AppliedInOrder(tr.calls, 1, point4))
    /\ [][tr'.matrix = mult(OwnMatrix(tr'.calls[Len(tr'.calls)]), tr.matrix)]_vars

----------------------------------------------------------------------------
(* Plane and its cached matrices (shapes/plane.rs, matrix.rs)                *)

\* Matrix::submatrix: the matrix without row i and column j
submatrix(m, i, j) ==
    [b \in 1..(Len(m) - 1) |-> [a \in 1..(Len(m) - 1) |->
        m[IF b < i THEN b ELSE b + 1][IF a < j THEN a ELSE a + 1]]]

\* Matrix::<2, 2>::det, and Matrix::<3, 3>::det and Matrix::<4, 4>::det by
\* expansion along the first row; Matrix::cofactor
RECURSIVE det_of(_)
cofactor(m, i, j) ==
    LET x == det_of(submatrix(m, i, j))
    IN IF (i + j) % 2 = 0 THEN x ELSE -x

det_of(m) ==
    IF Len(m) = 2 THEN Mul(m[1][1], m[2][2]) - Mul(m[1][2], m[2][1])
    ELSE LET res[j \in 0..Len(m)] ==
                 IF j = 0 THEN 0 ELSE res[j - 1] + Mul(m[1][j], cofactor(m, 1, j))
         IN res[Len(m)]

\* Matrix::<4, 4>::inverse: xss[j][i] = self.cofactor(i, j) / det
inverse(m) ==
    LET det_m == det_of(m)
    IN IF det_m = 0 THEN Err("Uninvertible")
       ELSE Ok([j \in 1..Len(m) |-> [i \in 1..Len(m) |-> Div(cofactor(m, i, j), det_m)]])

\* the inverse of a 3x3 matrix
inverse3(m) ==
    LET det_m == det_of(m)
    IN IF det_m = 0 THEN Err("Uninvertible")
       ELSE Ok([j \in 1..3 |-> [i \in 1..3 |-> Div(cofactor(m, i, j), det_m)]])

\* Matrix::transpose
transpose(m) == [i \in 1..Len(m) |-> [j \in 1..Len(m) |-> m[j][i]]]

\* Matrix::<3, 3>::ident()
ident3 == <<<<One, 0, 0>>, <<0, One, 0>>, <<0, 0, One>>>>

\* Plane::default, with the id get_uid gave
Plane_default(id) ==
    [kind |-> "plane", id |-> id, transform |-> ident4, inv_transform |-> ident4,
     norm_transform |-> ident3, material |-> DefaultMaterial]

\* a set_transform that keeps the inverse it has
set_inv_transform_kept(self, t) == Value(self.inv_transform)

\* what Plane::set_transform stores in inv_transform
set_inv_transform(self, t) == unwrap(inverse(t))

\* what Plane::set_transform stores in norm_transform
set_norm_transform(self, t) ==
    LET r == unwrap(inverse3(submatrix(t, 4, 4)))
    IN IF r.panicked THEN Panic ELSE Value(transpose(r.value))

\* Plane::set_transform: the plane, or the panic of an unwrap
Plane_set_transform(self, t) ==
    LET inv == set_inv_transform(self, t)
        norm == set_norm_transform(self, t)
    IN IF inv.panicked \/ norm.panicked THEN Panic
       ELSE Value([self EXCEPT !.transform = t, !.inv_transform = inv.value,
                               !.norm_transform = norm.value])

\* Plane::set_material
Plane_set_material(self, m) == [self EXCEPT !.material = m]

\* the transforms a plane is given: chains of up to two builder calls, and the
\* singular Tr::default().scale(0, 1, 1)
PlaneTransforms ==
    LET one == {Tr_call(ident4, c) : c \in BuilderCalls}
    IN {ident4} \cup one \cup {Tr_call(t, c) : t \in one, c \in BuilderCalls}
          \cup {scaling(0, One, One)}

\* the materials a plane is given
PlaneMaterials == {DefaultMaterial, [DefaultMaterial EXCEPT !.reflective = One]}

InitPlane ==
    /\ objects = <<>>
    /\ material = <<>>
    /\ NoTrace
    /\ ray = <<>>
    /\ xs = <<>>
    /\ h = None
    /\ comps = NoComps
    /\ before = None
    /\ pc = "idle"
    /\ NoShadow /\ NoCanvas /\ NoPath /\ NoYaml /\ NoRest
    /\ UID = 0
    /\ got = <<>>
    /\ shapes = <<>>
    /\ outcome = "running"

\* let p = Plane::default()
PlaneNew ==
    /\ outcome = "running"
    /\ UID < MaxShapes
    /\ UID' = get_uid(UID).value
    /\ shapes' = <<Plane_default(get_uid(UID).prior)>>
    /\ UNCHANGED <<coreVars, shadowVars, canvasVars, got, outcome, pathVars, yamlVars, restVars>>

\* p.set_transform(t)
PlaneSetTransform ==
    /\ outcome = "running"
    /\ shapes # <<>>
    /\ \E t \in PlaneTransforms :
          LET r == Plane_set_transform(shapes[1], t)
          IN IF r.panicked THEN shapes' = <<>> /\ outcome' = "panicked"
             ELSE shapes' = <<r.value>> /\ UNCHANGED outcome
    /\ UNCHANGED <<coreVars, shadowVars, canvasVars, UID, got, pathVars, yamlVars, restVars>>

\* p = p.with_transform(t): self.set_transform(t); self
PlaneWithTransform ==
    /\ outcome = "running"
    /\ shapes # <<>>
    /\ \E t \in PlaneTransforms :
          LET r == Plane_set_transform(shapes[1], t)
          IN IF r.panicked THEN shapes' = <<>> /\ outcome' = "panicked"
             ELSE shapes' = <<r.value>> /\ UNCHANGED outcome
    /\ UNCHANGED <<coreVars, shadowVars, canvasVars, UID, got, pathVars, yamlVars, restVars>>

\* p.set_material(m)
PlaneSetMaterial ==
    /\ outcome = "running"
    /\ shapes # <<>>
    /\ \E m \in PlaneMaterials : shapes' = <<Plane_set_material(shapes[1], m)>>
    /\ UNCHANGED <<coreVars, shadowVars, canvasVars, UID, got, outcome, pathVars, yamlVars, restVars>>

\* p = p.with_material(m): self.set_material(m); self
PlaneWithMaterial ==
    /\ outcome = "running"
    /\ shapes # <<>>
    /\ \E m \in PlaneMaterials : shapes' = <<Plane_set_material(shapes[1], m)>>
    /\ UNCHANGED <<coreVars, shadowVars, canvasVars, UID, got, outcome, pathVars, yamlVars, restVars>>

NextPlane ==
    \/ PlaneNew
    \/ PlaneSetTransform
    \/ PlaneWithTransform
    \/ PlaneSetMaterial
    \/ PlaneWithMaterial

SpecPlane == InitPlane /\ [][NextPlane]_vars

\* C25: whatever Plane::default, set_transform, with_transform, set_material
\* and with_material calls were made, the inverse the plane keeps times its
\* transform is the identity (from both sides), and the transpose of the
\* normal matrix it keeps times the upper-left 3x3 of the transform is the
\* identity; set_material and with_material change none of the three.
PlaneCachesInverse ==
    /\ [](shapes # <<>> =>
             /\ mult(shapes[1].transform, shapes[1].inv_transform) = ident4
             /\ mult(shapes[1].inv_transform, shapes[1].transform) = ident4
             /\ mult(transpose(shapes[1].norm_transform),
                     submatrix(shapes[1].transform, 4, 4)) = ident3)
    /\ [][(PlaneSetMaterial \/ PlaneWithMaterial) =>
              /\ shapes'[1].transform = shapes[1].transform
              /\ shapes'[1].inv_transform = shapes[1].inv_transform
              /\ shapes'[1].norm_transform = shapes[1].norm_transform]_vars

\* a plane with a sheared and translated transform, whose normal matrix is
\* not the inverse itself, given another material afterwards
PlaneShearedReached ==
    /\ shapes # <<>>
    /\ shapes[1].transform = Tr_call(Tr_call(ident4, [name |-> "shear", args |-> <<One, 0, 0, 0, 0, 0>>]),
                                     [name |-> "translate", args |-> <<10 * One, 5 * One, 7 * One>>])
    /\ shapes[1].norm_transform # submatrix(shapes[1].inv_transform, 4, 4)
    /\ shapes[1].inv_transform # ident4
    /\ shapes[1].material # DefaultMaterial

----------------------------------------------------------------------------
(* Shape::intersect_with and the object of an intersection (shapes/mod.rs,   *)
(* shapes/sphere.rs, shapes/plane.rs)                                        *)

\* Vector::dot
dot(a, b) == Mul(a[1], b[1]) + Mul(a[2], b[2]) + Mul(a[3], b[3])

\* Point - Point
tuple_sub(a, b) == [i \in 1..4 |-> a[i] - b[i]]

\* f64::sqrt, to the hundredth below
sqrt(x) == CHOOSE r \in 0..(x + One) : r * r <= x * One /\ (r + 1) * (r + 1) > x * One

\* x.abs() < EPSILON: of the hundredths only 0 is below 0.00001
below_EPSILON(x) == x = 0

\* a clone that is given another id
clone_renumbered(s) == [s EXCEPT !.id = @ + 1]

\* #[derive(Clone)] on Sphere and on Plane: every field is copied, the id too
clone(s) == s

\* Sphere::default, with the id get_uid gave
Sphere_default(id) ==
    [kind |-> "sphere", id |-> id, center |-> <<0, 0, 0, One>>, transform |-> ident4,
     material |-> DefaultMaterial]

\* Ray::with_transform (Ray::transform)
ray_with_transform(r, m) ==
    [origin |-> mult_tuple(m, r.origin), direction |-> mult_tuple(m, r.direction)]

\* Sphere::local_intersect_with
Sphere_local_intersect_with(self, r) ==
    LET sphere_to_ray == tuple_sub(r.origin, self.center)
        a == dot(r.direction, r.direction)
        b == 2 * dot(r.direction, sphere_to_ray)
        c == dot(sphere_to_ray, sphere_to_ray) - One
        discr == Mul(b, b) - 4 * Mul(a, c)
        t1 == Div(-b - sqrt(discr), 2 * a)
        t2 == Div(-b + sqrt(discr), 2 * a)
        s == clone(self)
    IN IF discr < 0 THEN <<>>
       ELSE <<Intersection(t1, clone(s)), Intersection(t2, clone(s))>>

\* Plane::local_intersect_with
Plane_local_intersect_with(self, r) ==
    IF below_EPSILON(r.direction[2]) THEN <<>>
    ELSE <<Intersection(Div(-r.origin[2], r.direction[2]), clone(self))>>

\* Shape::intersect_with: the intersections, or the panic of Tr::inverse
Shape_intersect_with(self, r) ==
    LET inv == unwrap(inverse(self.transform))
    IN IF inv.panicked THEN Panic
       ELSE IF self.kind = "sphere"
            THEN Value(Sphere_local_intersect_with(self, ray_with_transform(r, inv.value)))
            ELSE Value(Plane_local_intersect_with(self, ray_with_transform(r, inv.value)))

\* Tr::default(), Tr::default().scale(2, 2, 2)
ShapeTransforms == {ident4, scaling(2 * One, 2 * One, 2 * One)}

\* rays along z and along -y
Rays ==
    {[origin |-> o, direction |-> d] :
        o \in {<<0, 0, -5 * One, One>>, <<0, 2 * One, -5 * One, One>>, <<0, One, 0, One>>},
        d \in {<<0, 0, One, 0>>, <<0, -One, 0, 0>>}}

InitIntersect ==
    /\ objects = <<>>
    /\ material = <<>>
    /\ NoTrace
    /\ ray = <<>>
    /\ xs = <<>>
    /\ h = None
    /\ comps = NoComps
    /\ before = None
    /\ pc = "idle"
    /\ NoShadow /\ NoCanvas /\ NoPath /\ NoYaml /\ NoRest
    /\ UID = 0
    /\ got = <<>>
    /\ shapes = <<>>
    /\ outcome = "running"

\* Sphere::default().with_transform(t)
NewSphere ==
    /\ outcome = "running"
    /\ Len(shapes) < MaxShapes
    /\ UID' = get_uid(UID).value
    /\ \E t \in ShapeTransforms :
          shapes' = Append(shapes, [Sphere_default(get_uid(UID).prior) EXCEPT !.transform = t])
    /\ UNCHANGED <<coreVars, shadowVars, canvasVars, got, outcome, pathVars, yamlVars, restVars>>

\* Plane::default().with_transform(t)
NewPlane ==
    /\ outcome = "running"
    /\ Len(shapes) < MaxShapes
    /\ UID' = get_uid(UID).value
    /\ \E t \in ShapeTransforms :
          shapes' = Append(shapes, Plane_set_transform(Plane_default(get_uid(UID).prior), t).value)
    /\ UNCHANGED <<coreVars, shadowVars, canvasVars, got, outcome, pathVars, yamlVars, restVars>>

\* shapes[i].intersect_with(r): got is the shape intersected, xs what came back
IntersectWith ==
    /\ outcome = "running"
    /\ \E i \in 1..Len(shapes), r \in Rays :
          /\ got' = <<i>>
          /\ xs' = Shape_intersect_with(shapes[i], r).value
    /\ UNCHANGED <<objects, material, traceVars, ray, h, comps, before, pc, shadowVars,
                   canvasVars, UID, shapes, outcome, pathVars, yamlVars, restVars>>

NextIntersect ==
    \/ NewSphere
    \/ NewPlane
    \/ IntersectWith

SpecIntersect == InitIntersect /\ [][NextIntersect]_vars

\* C26: what intersect_with returned last is nothing or two intersections for
\* a sphere and nothing or one for a plane, each with an object whose id is
\* the id of the shape that was intersected and of no other shape; and the
\* objects of two consecutive calls compare equal (dyn Shape ==) exactly when
\* the same shape was intersected both times.
IntersectionsReferToTheirShape ==
    /\ [](got # <<>> =>
             /\ Len(xs) \in (IF shapes[got[1]].kind = "sphere" THEN {0, 2} ELSE {0, 1})
             /\ \A i \in 1..Len(xs) :
                   /\ xs[i].object.id = shapes[got[1]].id
                   /\ \A j \in 1..Len(shapes) :
                         shape_eq(xs[i].object, shapes[j]) <=> j = got[1])
    /\ [][got # <<>> /\ got' # <<>> =>
              \A i \in 1..Len(xs), j \in 1..Len(xs') :
                  shape_eq(xs[i].object, xs'[j].object) <=> got' = got]_vars

\* a sphere hit twice and a plane hit once, one call after the other
SphereThenPlaneHitReached ==
    /\ Len(shapes) >= 2
    /\ got = <<2>>
    /\ shapes[1].kind = "sphere"
    /\ shapes[2].kind = "plane"
    /\ Len(xs) = 1
    /\ xs[1].object.id = 1

----------------------------------------------------------------------------
(* Intersection::prepare_computations: eye vector, normal and inside         *)
(* (ray.rs)                                                                  *)

\* Ray::position_at
position_at(r, t) == [i \in 1..4 |-> r.origin[i] + Mul(t, r.direction[i])]

\* -Vector
vector_neg(v) == [i \in 1..4 |-> -v[i]]

\* Vector::magnitude: x.hypot(y).hypot(z)
magnitude(v) == sqrt(dot(v, v))

\* Vector::normalize
normalize(v) == [i \in 1..4 |-> Div(v[i], magnitude(v))]

\* Sphere::normal_at
Sphere_normal_at(self, p) ==
    LET m == self.transform
        object_point == mult_tuple(inverse(m).value, p)
        object_normal == tuple_sub(object_point, self.center)
        n == transpose(inverse3(submatrix(m, 4, 4)).value)
        world_normal ==
            [i \in 1..4 |->
                IF i = 4 THEN 0
                ELSE Mul(n[i][1], object_normal[1]) + Mul(n[i][2], object_normal[2])
                         + Mul(n[i][3], object_normal[3])]
    IN normalize(world_normal)

\* a normalv that is stored as it was computed
normalv_as_computed(inside, normalv) == normalv

\* if inside { -normalv } else { normalv }
normalv_stored(inside, normalv) == IF inside THEN vector_neg(normalv) ELSE normalv

\* Intersection::prepare_computations
Intersection_prepare_computations(self, r) ==
    LET p == position_at(r, self.t)
        eyev == vector_neg(r.direction)
        normalv == Sphere_normal_at(self.object, p)
        inside == dot(eyev, normalv) < 0
    IN [t |-> self.t, object |-> self.object, point |-> p, eyev |-> eyev,
        normalv |-> normalv_stored(inside, normalv), inside |-> inside]

\* Tr::default(), scale(2, 2, 2), translate(0, 1, 0), scale(1, 2, 1)
SphereTransforms ==
    {ident4, scaling(2 * One, 2 * One, 2 * One), translation(0, One, 0),
     scaling(One, 2 * One, One)}

\* rays along the axes from in front of, inside, above and behind the sphere
PreparedRays ==
    {[origin |-> o, direction |-> d] :
        o \in {<<0, 0, -5 * One, One>>, <<0, 0, 0, One>>, <<0, One, 0, One>>,
               <<0, 5 * One, 0, One>>, <<0, 0, 5 * One, One>>},
        d \in {<<0, 0, One, 0>>, <<0, 0, -One, 0>>, <<0, -One, 0, 0>>, <<0, One, 0, 0>>}}

InitPrepare ==
    /\ objects = <<>>
    /\ material = <<>>
    /\ NoTrace
    /\ ray = <<>>
    /\ xs = <<>>
    /\ h = None
    /\ comps = NoComps
    /\ before = None
    /\ pc = "idle"
    /\ NoShadow /\ NoCanvas /\ NoPath /\ NoYaml /\ NoRest
    /\ UID = 0
    /\ got = <<>>
    /\ shapes = <<>>
    /\ outcome = "running"

\* let shape = Sphere::default().with_transform(t)
PrepareSphere ==
    /\ shapes = <<>>
    /\ UID' = get_uid(UID).value
    /\ \E t \in SphereTransforms :
          shapes' = <<[Sphere_default(get_uid(UID).prior) EXCEPT !.transform = t]>>
    /\ UNCHANGED <<coreVars, shadowVars, canvasVars, got, outcome, pathVars, yamlVars, restVars>>

\* let xs = r.when_intersect_sphere(&shape)
WhenIntersectSphere ==
    /\ shapes # <<>>
    /\ \E r \in PreparedRays :
          /\ ray' = r
          /\ xs' = Shape_intersect_with(shapes[1], r).value
    /\ comps' = NoComps
    /\ UNCHANGED <<objects, material, traceVars, h, before, pc, shadowVars, canvasVars,
                   uidVars, pathVars, yamlVars, restVars>>

\* let comps = xs[i].prepare_computations(r)
PrepareHit ==
    /\ \E i \in 1..Len(xs) : comps' = Intersection_prepare_computations(xs[i], ray)
    /\ UNCHANGED <<objects, material, traceVars, ray, xs, h, before, pc, shadowVars,
                   canvasVars, uidVars, pathVars, yamlVars, restVars>>

NextPrepare ==
    \/ PrepareSphere
    \/ WhenIntersectSphere
    \/ PrepareHit

SpecPrepare == InitPrepare /\ [][NextPrepare]_vars

\* C28: in every prepared intersection inside is true exactly when the
\* negated ray direction and the sphere's normal at the hit point have a
\* negative dot product, normalv is then the negated normal and the normal
\* itself otherwise, and the dot product of eyev and normalv is never negative.
InsideFlipsNormal ==
    comps # NoComps =>
        LET normal == Sphere_normal_at(comps.object, comps.point)
        IN /\ comps.eyev = vector_neg(ray.direction)
           /\ comps.inside <=> dot(comps.eyev, normal) < 0
           /\ comps.inside => comps.normalv = vector_neg(normal)
           /\ ~comps.inside => comps.normalv = normal
           /\ dot(comps.eyev, comps.normalv) >= 0

\* the hit of when_intersect_occurs_on_inside: a ray from the centre of the
\* default sphere, t = 1, normal (0, 0, 1) stored as (0, 0, -1)
InsideHitReached ==
    /\ comps # NoComps
    /\ shapes[1].transform = ident4
    /\ ray = [origin |-> <<0, 0, 0, One>>, direction |-> <<0, 0, One, 0>>]
    /\ comps.t = One
    /\ comps.point = <<0, 0, One, One>>
    /\ comps.inside
    /\ comps.normalv = <<0, 0, -One, 0>>

----------------------------------------------------------------------------
(* impl Display for Color (color.rs)                                         *)

\* impl Display for Color: "{} {} {}" of the three channels
Color_fmt(c) ==
    to_string(channel(c[1])) \o <<" ">> \o to_string(channel(c[2])) \o <<" ">>
        \o to_string(channel(c[3]))

\* the components a colour is made of: below 0, 0, between 0 and 1 (0.2, 0.4
\* and 0.5 among them), 1, above 1
ColorComponents == {-50, -1, 0, 1, 20, 39, 40, 50, 99, One, One + 1, 150}

InitColor ==
    /\ objects = <<>>
    /\ material = <<>>
    /\ NoTrace
    /\ ray = <<>>
    /\ xs = <<>>
    /\ h = None
    /\ comps = NoComps
    /\ before = None
    /\ pc = "idle"
    /\ NoShadow /\ NoCanvas /\ NoUid /\ NoPath /\ NoYaml
    /\ trs = <<>>
    /\ tr = <<>>
    /\ fmt = <<>>

\* Color::new(r, g, b).to_string()
ColorToString ==
    /\ fmt = <<>>
    /\ \E r \in ColorComponents, g \in ColorComponents, b \in ColorComponents :
          fmt' = [color |-> <<r, g, b>>, text |-> Color_fmt(<<r, g, b>>)]
    /\ UNCHANGED <<coreVars, shadowVars, canvasVars, uidVars, pathVars, yamlVars, trs, tr>>

NextColor == ColorToString

SpecColor == InitColor /\ [][NextColor]_vars

\* C29: the text of a colour is three integers, each in 0..255 and the least
\* integer not below the component times 255, kept within 0..255: 0 for a
\* component <= 0, 255 for a component >= 1, 128 for 0.5.
ColorFormatsClampedCeil ==
    fmt # <<>> =>
        LET words == split_whitespace(fmt.text)
        IN /\ Len(words) = 3
           /\ \A k \in 1..3 :
                 \E n \in 0..255 :
                     /\ words[k] = to_string(n)
                     /\ fmt.color[k] <= 0 => n = 0
                     /\ fmt.color[k] >= One => n = 255
                     /\ fmt.color[k] = 50 => n = 128
                     /\ (fmt.color[k] > 0 /\ fmt.color[k] < One) =>
                            /\ n * One >= fmt.color[k] * 255
                            /\ (n - 1) * One < fmt.color[k] * 255

\* Color::new(-0.5, 0.0, 0.5) has been formatted as "0 0 128"
ColorHalfReached ==
    /\ fmt # <<>>
    /\ fmt.color = <<-50, 0, 50>>
    /\ fmt.text = <<"0", " ", "0", " ", "1", "2", "8">>

----------------------------------------------------------------------------
(* The u16 limit of color_of_ray (light.rs, world.rs)                        *)

\* C30: the limit never wraps: a nested color_of_ray is called only from a
\* call whose limit is at least 1 and is given that limit less one, so under
\* color_of_ray(ray, d) the limits of the nested calls are d - 1, d - 2, ..
\* down to 0 at most, and none is 65535.
LimitNeverUnderflows ==
    /\ [](\A i \in 1..Len(stack) :
             /\ stack[i].limit = stack[1].limit - (i - 1)
             /\ stack[i].limit \in 0..MaxDepth
             /\ stack[i].limit # 65535)
    /\ [][Len(stack') > Len(stack) /\ stack # <<>> =>
              /\ Top.limit >= 1
              /\ stack'[Len(stack')].limit = Top.limit - 1]_vars

\* a chain of nested calls from limit MaxDepth down to limit 0, whose last
\* call has a hit on a reflective and transparent object and casts no more
LimitZeroNestedReached ==
    /\ Len(stack) = MaxDepth + 1
    /\ stack[1].limit = MaxDepth
    /\ Top.limit = 0
    /\ Top.pc = "combine"
    /\ MaterialOf(Top).reflective # 0
    /\ MaterialOf(Top).transparency # 0

====
